---- MODULE Spec2Model ----
(***************************************************************************)
(* Model of the Telegram/WhatsApp tutor bot: the per-user rate limiter,    *)
(* the retrying bounded-size download, the OCR result cache, the history   *)
(* ring and the tutor session map of src/telegram_bot.py, and the          *)
(* WhatsApp webhook of src/whatsapp_bot.py.                                *)
(*                                                                         *)
(* Time is counted in whole seconds.  Sizes are counted in bytes; the      *)
(* size caps are whole megabytes.  The configuration read from the         *)
(* environment at import time is chosen in Init and never changes.         *)
(***************************************************************************)
EXTENDS Integers, Sequences, FiniteSets, TLC

VARIABLES
    now,                  \* time.time(), whole seconds
    BOT_TOKEN,            \* configuration, telegram_bot.py:29-37; "" if unset
    proc,                 \* the process: "imported", "exited" or "polling"
    loads,                \* calls of load_state() made by this process
    RATE_LIMIT_WINDOW_S,  \* configuration, telegram_bot.py:44
    RATE_LIMIT_MAX,       \* configuration, telegram_bot.py:45
    DOWNLOAD_MAX_RETRIES, \* configuration, telegram_bot.py:43
    MAX_TEXT_CHARS,       \* configuration, telegram_bot.py:41
    HISTORY_MAX,          \* configuration, telegram_bot.py:46
    MAX_PHOTO_SIZE_MB,    \* configuration, telegram_bot.py:40
    MAX_DOC_SIZE_MB,      \* configuration, telegram_bot.py:39
    rate_limit,           \* defaultdict(deque): user id -> timestamps
    rl_ret,               \* RateLimitedCall: last return, <<user, limited>>
    accepted,             \* log: user id -> time -> accepted calls
    user_history,         \* defaultdict(deque(maxlen)): user id -> entries
    hist_log,             \* log: user id -> the arguments of every _remember
    ctx_ret,              \* the reply of the last /context
    ocr_cache,            \* dict: file hash -> extracted text
    tutor_state,          \* defaultdict(dict): user id -> session
    state_file,           \* contents of STATE_FILE on disk
    tutor_ret,            \* result of the last tutor command
    tutor_log,            \* log: user id -> what the tutor replies have shown
    h,                    \* the handler invocations in flight, one per slot
    tmp_files,            \* paths of the temporary files that exist on disk
    ocr_calls,            \* log: payload -> number of text extractions run
    wa_ret                \* last WhatsApp webhook: <<payload, extracted text>>

config == <<RATE_LIMIT_WINDOW_S, RATE_LIMIT_MAX, DOWNLOAD_MAX_RETRIES,
            MAX_TEXT_CHARS, HISTORY_MAX, MAX_PHOTO_SIZE_MB, MAX_DOC_SIZE_MB>>
rate_vars == <<rate_limit, rl_ret, accepted>>
tutor_vars == <<tutor_state, state_file, tutor_ret, tutor_log>>
history_vars == <<hist_log, ctx_ret>>
boot_vars == <<BOT_TOKEN, proc, loads>>
handler_frame == <<now, config, boot_vars, rl_ret, tutor_vars, history_vars>>
vars == <<now, config, boot_vars, rate_vars, user_history, history_vars,
          ocr_cache, tutor_vars, h, tmp_files, ocr_calls, wa_ret>>

----------------------------------------------------------------------------
(* Bounds of the model. *)

MaxTime == 2        \* the clock stops here
MaxWindow == 1      \* RATE_LIMIT_WINDOW_S is drawn from 0..MaxWindow
MaxRate == 2        \* RATE_LIMIT_MAX is drawn from 0..MaxRate

Users == {1, 2}

----------------------------------------------------------------------------
(* RateLimiter: _rate_limited, telegram_bot.py:570-578 *)

\* rate_limit is a defaultdict(deque) that is only ever read as
\* rate_limit[user_id]: a missing key reads as the empty deque, so the map
\* is total, with the empty deque for the users that never called.
WindowOf(u) == rate_limit[u]

\* Mutant of Expired: an entry exactly RATE_LIMIT_WINDOW_S old is dropped too.
ExpiredAtEdge(t, head) == t - head >= RATE_LIMIT_WINDOW_S

\* The loop condition `now - dq[0] > RATE_LIMIT_WINDOW_S`.
Expired(t, head) == t - head > RATE_LIMIT_WINDOW_S

\* Mutant of PopExpired: `if` for `while`, at most one entry is dropped.
PopExpiredHeadOnly(dq, t) ==
    IF dq # <<>> /\ Expired(t, Head(dq)) THEN Tail(dq) ELSE dq

\* while dq and now - dq[0] > RATE_LIMIT_WINDOW_S: dq.popleft()
RECURSIVE PopExpired(_, _)
PopExpired(dq, t) ==
    IF dq # <<>> /\ Expired(t, Head(dq)) THEN PopExpired(Tail(dq), t) ELSE dq

\* Mutant of WindowFull: off by one, `len(dq) > RATE_LIMIT_MAX`.
WindowOverFull(dq) == Len(dq) > RATE_LIMIT_MAX

\* if len(dq) >= RATE_LIMIT_MAX: return True
WindowFull(dq) == Len(dq) >= RATE_LIMIT_MAX

\* Mutant of _rate_limited: the timestamp is appended before the check, so
\* a rejected call records it too.
RateLimitedRecording(u) ==
    LET dq == PopExpired(WindowOf(u), now) IN
    [limited |-> WindowFull(dq), dq |-> Append(dq, now)]

\* The whole call _rate_limited(u) at time `now`: the deque after the call
\* and the value returned.
_rate_limited(u) ==
    LET dq == PopExpired(WindowOf(u), now) IN
    IF WindowFull(dq)
    THEN [limited |-> TRUE, dq |-> dq]
    ELSE [limited |-> FALSE, dq |-> Append(dq, now)]

\* The effect of one call of _rate_limited(u), returning r, on rate_limit,
\* and the accepted call logged.
Admit(u, r) ==
    /\ r = _rate_limited(u)
    /\ rate_limit' = [rate_limit EXCEPT ![u] = r.dq]
    /\ accepted' = IF r.limited THEN accepted
                   ELSE [accepted EXCEPT ![u][now] = @ + 1]

\* One call of _rate_limited on its own and its return value.
RateLimitedCall(u) ==
    /\ \E r \in {_rate_limited(u)} :
        /\ Admit(u, r)
        /\ rl_ret' = <<u, r.limited>>
    /\ UNCHANGED <<now, config, boot_vars, user_history, history_vars,
                   ocr_cache, tutor_vars, h, tmp_files, ocr_calls, wa_ret>>

\* The clock advances by one second.
Tick ==
    /\ now < MaxTime
    /\ now' = now + 1
    /\ UNCHANGED <<config, boot_vars, rate_vars, user_history, history_vars,
                   ocr_cache, tutor_vars, h, tmp_files, ocr_calls, wa_ret>>

----------------------------------------------------------------------------
(* Text.  A text is `len` characters of a source followed by the first     *)
(* `mark` characters of the truncation marker.  The source "code" has no   *)
(* whitespace at either end of any of its prefixes, the source "blank" is  *)
(* whitespace only, and "marker" is the marker without its two leading     *)
(* newlines.                                                               *)

MarkerLen == 25     \* len("\n\n[Truncado por longitud]")
MarkerLead == 2     \* the marker's leading newlines
HistoryChars == 500 \* text[:500] in _remember
SnippetChars == 200 \* extracted[:200], content[:200]

Min(a, b) == IF a < b THEN a ELSE b
Max(a, b) == IF a > b THEN a ELSE b

EmptyText == [src |-> "", len |-> 0, mark |-> 0]
Code(n) == [src |-> "code", len |-> n, mark |-> 0]
Blank(n) == [src |-> "blank", len |-> n, mark |-> 0]

TextLen(s) == s.len + s.mark

\* s[:n]
Slice(s, n) ==
    IF TextLen(s) <= n THEN s
    ELSE IF Min(s.len, n) = 0 /\ n - Min(s.len, n) = 0 THEN EmptyText
    ELSE [src |-> s.src, len |-> Min(s.len, n),
          mark |-> Min(s.mark, n - Min(s.len, n))]

\* s.strip()
Strip(s) ==
    IF s.src \in {"blank", ""}
    THEN IF s.mark > MarkerLead
         THEN [src |-> "marker", len |-> s.mark - MarkerLead, mark |-> 0]
         ELSE EmptyText
    ELSE IF s.mark <= MarkerLead THEN [s EXCEPT !.mark = 0] ELSE s

\* _sanitize_text, telegram_bot.py:559-563
_sanitize_text(s) ==
    IF TextLen(s) > MAX_TEXT_CHARS
    THEN Strip([src |-> s.src, len |-> Min(s.len, MAX_TEXT_CHARS),
                mark |-> MarkerLen])
    ELSE Strip(s)

----------------------------------------------------------------------------
(* Payloads: the byte contents of a photo or document.  A payload has a    *)
(* fixed size and carries a fixed text.                                    *)

MB == 1048576       \* 1024 * 1024 in _mb
MaxCapMB == 1       \* the size caps are drawn from 1..MaxCapMB

Payloads == {1, 2, 3}

\* Size in bytes: one byte, one byte above the largest cap, and the first
\* size above the largest cap that _mb rounds up.
PayloadSize(b) ==
    CASE b = 1 -> 1
      [] b = 2 -> MaxCapMB * MB + 1
      [] b = 3 -> MaxCapMB * MB + 5243

\* The text an error-free OCR run, or reading the file as text, yields.
PayloadText(b) ==
    CASE b = 1 -> Code(3)
      [] b = 2 -> Blank(3)
      [] b = 3 -> Code(3)

\* _hash_file: the SHA-256 digest of the file's bytes, one per content.
_hash_file(b) == <<"sha256", b>>

\* _mb, telegram_bot.py:566-567: round(bytes_size / (1024 * 1024), 2), in
\* hundredths of a megabyte, ties to the even hundredth.
_mb(bytes_size) ==
    LET q == (bytes_size * 100) \div MB
        r == (bytes_size * 100) % MB
    IN  IF 2 * r > MB \/ (2 * r = MB /\ q % 2 = 1) THEN q + 1 ELSE q

\* `size_mb > max_mb`, telegram_bot.py:626
ExceedsLimit(file_size, max_mb) == _mb(file_size) > 100 * max_mb

----------------------------------------------------------------------------
(* HistoryRing: user_history, _remember, telegram_bot.py:77 and 603-604 *)

\* user_history.get(user_id, []): a missing key reads as empty and is not
\* created.
HistoryOf(u) == IF u \in DOMAIN user_history THEN user_history[u] ELSE <<>>

\* Mutant of DequeAppend: a full deque drops the new entry.
DequeAppendKeepOldest(dq, e) ==
    IF Len(dq) >= HISTORY_MAX THEN dq ELSE Append(dq, e)

\* deque(maxlen=HISTORY_MAX).append(e)
DequeAppend(dq, e) ==
    IF HISTORY_MAX = 0 THEN <<>>
    ELSE IF Len(dq) >= HISTORY_MAX THEN Append(Tail(dq), e)
    ELSE Append(dq, e)

\* Mutant of _remember: only text messages are recorded.
RememberTextOnly(u, kind, text) ==
    IF kind = "texto"
    THEN (u :> DequeAppend(HistoryOf(u), <<kind, Slice(text, HistoryChars)>>))
            @@ user_history
    ELSE user_history

\* user_history after _remember(u, kind, text); user_history[user_id]
\* creates the deque of a user who has none.
_remember(u, kind, text) ==
    (u :> DequeAppend(HistoryOf(u), <<kind, Slice(text, HistoryChars)>>))
        @@ user_history

\* Mutant of _get_history: the entries are listed newest first.
GetHistoryNewestFirst(u) ==
    LET hist == HistoryOf(u)
    IN  [sentinel |-> hist = <<>>,
         lines |-> [i \in 1..Len(hist) |->
                      <<i, hist[Len(hist) + 1 - i][1],
                        hist[Len(hist) + 1 - i][2]>>]]

\* _get_history(u), telegram_bot.py:607-614: the sentinel text "No hay
\* contexto previo." for an empty or missing deque, otherwise one line
\* "i. (kind) text" per entry, numbered from 1 in the deque's order.
_get_history(u) ==
    LET hist == HistoryOf(u)
    IN  [sentinel |-> hist = <<>>,
         lines |-> [i \in 1..Len(hist) |-> <<i, hist[i][1], hist[i][2]>>]]

NoContext == [uid |-> 0, sentinel |-> FALSE, lines |-> <<>>]

\* The texts and kinds _remember is called with: a text below and one above
\* the cut.
HistoryTexts == {Code(3), Code(700)}
HistoryKinds == {"texto", "foto"}

MaxHistory == 2   \* largest HISTORY_MAX
MaxAppends == 3   \* calls of _remember

\* One call of _remember on its own, its arguments logged.
RememberCall(u, kind, text) ==
    /\ Len(hist_log[1]) + Len(hist_log[2]) < MaxAppends
    /\ user_history' = _remember(u, kind, text)
    /\ hist_log' = [hist_log EXCEPT ![u] = Append(@, <<kind, text>>)]
    /\ UNCHANGED <<now, config, boot_vars, rate_vars, ctx_ret, ocr_cache,
                   tutor_vars, h, tmp_files, ocr_calls, wa_ret>>

\* context_cmd, telegram_bot.py:929-931
context_cmd(u) ==
    /\ ctx_ret' = [uid |-> u, sentinel |-> _get_history(u).sentinel,
                   lines |-> _get_history(u).lines]
    /\ UNCHANGED <<now, config, boot_vars, rate_vars, user_history, hist_log,
                   ocr_cache, tutor_vars, h, tmp_files, ocr_calls, wa_ret>>

----------------------------------------------------------------------------
(* Handler invocations.  A handler is a coroutine; a slot holds one       *)
(* invocation and its local variables between two awaits.  The            *)
(* Application built at telegram_bot.py:1071 does not enable concurrent   *)
(* updates, so it awaits one handler to its end before it starts the      *)
(* next: there is one slot.                                               *)

MaxTmpFiles == 1    \* temporary files the disk holds at most
MaxRetries == 3     \* DOWNLOAD_MAX_RETRIES is drawn from 0..MaxRetries
MaxRetryAfter == 1  \* RetryAfter.retry_after is drawn from 1..MaxRetryAfter

Slots == {1}

Idle ==
    [pc |-> "idle", kind |-> "", uid |-> 0, payload |-> 0, file_size |-> 0,
     text |-> EmptyText, attempt |-> 0, fails |-> 0, oks |-> 0,
     last_err |-> "", started |-> 0, due |-> 0, created |-> 0,
     tmp_path |-> 0, ret |-> "", reply |-> "", hit |-> FALSE]

Free(p) == h[p].pc \in {"idle", "done"}

\* tempfile.NamedTemporaryFile picks a name no existing file has.
FreshPath == CHOOSE n \in 1..(MaxTmpFiles + 1) : n \notin tmp_files

\* The invocation that was rejected by the rate limiter: the reply is sent
\* and the handler returns (telegram_bot.py:938-941, 958-961, 1000-1003).
RateLimitedReply(kind, u) ==
    [Idle EXCEPT !.pc = "done", !.kind = kind, !.uid = u,
                 !.reply = "rate_limited"]

\* handle_text up to `await send_action`, telegram_bot.py:936-945
handle_text(p, u, txt) ==
    /\ Free(p)
    /\ \E r \in {_rate_limited(u)} :
        /\ Admit(u, r)
        /\ h' = [h EXCEPT ![p] =
                   IF r.limited THEN RateLimitedReply("text", u)
                   ELSE IF TextLen(_sanitize_text(txt)) = 0
                   THEN [Idle EXCEPT !.pc = "done", !.kind = "text", !.uid = u]
                   ELSE [Idle EXCEPT !.pc = "typing", !.kind = "text",
                                     !.uid = u, !.text = _sanitize_text(txt)]]
    /\ UNCHANGED <<handler_frame, user_history, ocr_cache, tmp_files,
                   ocr_calls, wa_ret>>

\* handle_text from analyze_code to the reply, telegram_bot.py:946-953
handle_text_analyze(p) ==
    /\ h[p].pc = "typing"
    /\ user_history' = _remember(h[p].uid, "texto", h[p].text)
    /\ h' = [h EXCEPT ![p].pc = "done", ![p].reply = "analysis",
                      ![p].text = EmptyText]
    /\ UNCHANGED <<handler_frame, rate_limit, accepted, ocr_cache, tmp_files,
                   ocr_calls, wa_ret>>

\* handle_photo up to `await file_obj.get_file()`, telegram_bot.py:956-969
\* and 624.  b = 0 is a message without photos; declared = FALSE is a
\* descriptor without file_size.
handle_photo(p, u, b, declared) ==
    /\ Free(p)
    /\ \E r \in {_rate_limited(u)} :
        /\ Admit(u, r)
        /\ h' = [h EXCEPT ![p] =
                   IF r.limited THEN RateLimitedReply("photo", u)
                   ELSE IF b = 0
                   THEN [Idle EXCEPT !.pc = "done", !.kind = "photo", !.uid = u]
                   ELSE [Idle EXCEPT !.pc = "get_file", !.kind = "photo",
                            !.uid = u, !.payload = b,
                            !.file_size = IF declared THEN PayloadSize(b)
                                          ELSE 0]]
    /\ UNCHANGED <<handler_frame, user_history, ocr_cache, tmp_files,
                   ocr_calls, wa_ret>>

\* handle_document up to `await file_obj.get_file()`,
\* telegram_bot.py:998-1020 and 624.  b = 0 is a message without document.
handle_document(p, u, b, declared, mime_ok) ==
    /\ Free(p)
    /\ \E r \in {_rate_limited(u)} :
        /\ Admit(u, r)
        /\ h' = [h EXCEPT ![p] =
                   IF r.limited THEN RateLimitedReply("document", u)
                   ELSE IF b = 0
                   THEN [Idle EXCEPT !.pc = "done", !.kind = "document",
                                     !.uid = u]
                   ELSE IF ~mime_ok
                   THEN [Idle EXCEPT !.pc = "done", !.kind = "document",
                            !.uid = u, !.payload = b,
                            !.reply = "mime_not_allowed"]
                   ELSE [Idle EXCEPT !.pc = "get_file", !.kind = "document",
                            !.uid = u, !.payload = b,
                            !.file_size = IF declared THEN PayloadSize(b)
                                          ELSE 0]]
    /\ UNCHANGED <<handler_frame, user_history, ocr_cache, tmp_files,
                   ocr_calls, wa_ret>>

----------------------------------------------------------------------------
(* ResilientFetcher: _download_with_retry, telegram_bot.py:623-644, and    *)
(* what the photo and document handlers do with its result.                *)

MaxMbOf(kind) == IF kind = "photo" THEN MAX_PHOTO_SIZE_MB ELSE MAX_DOC_SIZE_MB

\* Mutant of LoopAttempts: one more pass of the retry loop.
LoopAttemptsPlusOne == 1..(DOWNLOAD_MAX_RETRIES + 1)

\* for attempt in range(1, DOWNLOAD_MAX_RETRIES + 1)
LoopAttempts == 1..DOWNLOAD_MAX_RETRIES

\* Mutant of Retryable: every exception is caught and retried.
RetryableAll(err) == err \in {"RetryAfter", "NetworkError", "Forbidden"}

\* The exceptions the loop catches: `except RetryAfter`, `except NetworkError`.
Retryable(err) == err \in {"RetryAfter", "NetworkError"}

\* _download_with_retry returned None: the handler replies that the file is
\* too big or could not be downloaded and returns; its tmp_path is None, so
\* the finally block removes nothing (telegram_bot.py:970-972, 989-994).
ReturnedNone(rec) ==
    [rec EXCEPT !.pc = "done", !.ret = "None", !.reply = "too_big_or_failed",
                !.started = 0, !.due = 0]

\* An exception left _download_with_retry: the handler's `except Exception`
\* replies with the error message and returns; its tmp_path is still None
\* (telegram_bot.py:985-994).
Raised(rec) ==
    [rec EXCEPT !.pc = "done", !.ret = "raised", !.reply = "error",
                !.started = 0, !.due = 0]

\* get_file() returns (ok) or raises; then the size check, the temporary
\* file and the first download_to_drive call, telegram_bot.py:624-635.
get_file_done(p, ok) ==
    /\ h[p].pc = "get_file"
    /\ IF ~ok
       THEN /\ h' = [h EXCEPT ![p] = Raised(@)]
            /\ UNCHANGED tmp_files
       ELSE IF ExceedsLimit(h[p].file_size, MaxMbOf(h[p].kind))
       THEN /\ h' = [h EXCEPT ![p] = ReturnedNone(@)]
            /\ UNCHANGED tmp_files
       ELSE /\ Cardinality(tmp_files) < MaxTmpFiles
            /\ tmp_files' = tmp_files \cup {FreshPath}
            /\ h' = [h EXCEPT ![p] =
                       IF 1 \in LoopAttempts
                       THEN [@ EXCEPT !.pc = "download", !.created = FreshPath,
                                      !.attempt = 1, !.started = now]
                       ELSE ReturnedNone([@ EXCEPT !.created = FreshPath])]
    /\ UNCHANGED <<handler_frame, rate_limit, accepted, user_history, ocr_cache,
                   ocr_calls, wa_ret>>

\* download_to_drive raises err (with retry_after = secs for RetryAfter):
\* a caught error starts the next attempt at once or, after the last pass,
\* returns None; any other exception leaves the function.
\* telegram_bot.py:633-644
download_fails(p, err, secs) ==
    /\ h[p].pc = "download"
    /\ h' = [h EXCEPT ![p] =
               IF ~Retryable(err)
               THEN Raised([@ EXCEPT !.fails = @ + 1, !.last_err = err])
               ELSE IF h[p].attempt + 1 \in LoopAttempts
               THEN [@ EXCEPT !.fails = @ + 1, !.last_err = err,
                              !.attempt = @ + 1, !.started = now,
                              !.due = IF err = "RetryAfter" THEN now + secs
                                      ELSE 0]
               ELSE ReturnedNone([@ EXCEPT !.fails = @ + 1, !.last_err = err])]
    /\ UNCHANGED <<handler_frame, rate_limit, accepted, user_history, ocr_cache,
                   tmp_files, ocr_calls, wa_ret>>

\* The finally block of the handlers: the file named by the handler's
\* tmp_path is removed, telegram_bot.py:989-994 and 1038-1043.
Finally(tmp_path) == tmp_files \ {tmp_path}

\* ocr_image_path, common.py:66-71: the text read from the image, or ""
\* when the OCR run raises (ocr_ok = FALSE).
ocr_image_path(b, ocr_ok) == IF ocr_ok THEN PayloadText(b) ELSE EmptyText

\* Mutant of CacheStore: the cache keeps the newest entry only.
CacheStoreEvicting(cache, file_hash, text) == (file_hash :> text)

\* Mutant of CacheStore: an empty text is not stored.
CacheStoreNonEmpty(cache, file_hash, text) ==
    IF TextLen(text) = 0 THEN cache ELSE (file_hash :> text) @@ cache

\* ocr_cache[file_hash] = extracted, telegram_bot.py:978
CacheStore(cache, file_hash, text) == (file_hash :> text) @@ cache

\* download_to_drive succeeds in handle_photo: hash, cache lookup, OCR on a
\* miss (ocr_ok = FALSE: the OCR run raises and yields ""), analysis, history,
\* finally and reply.  telegram_bot.py:635-636 and 969-995
photo_downloaded(p, ocr_ok) ==
    /\ h[p].pc = "download"
    /\ h[p].kind = "photo"
    /\ LET b == h[p].payload
           file_hash == _hash_file(b)
           hit == file_hash \in DOMAIN ocr_cache
           raw == IF hit THEN ocr_cache[file_hash]
                  ELSE ocr_image_path(b, ocr_ok)
           extracted == _sanitize_text(raw)
           empty == TextLen(Strip(extracted)) = 0
       IN  /\ hit => ocr_ok
           /\ ocr_cache' = IF hit THEN ocr_cache
                           ELSE CacheStore(ocr_cache, file_hash, raw)
           /\ ocr_calls' = IF hit THEN ocr_calls
                           ELSE [ocr_calls EXCEPT ![b] = @ + 1]
           /\ user_history' =
                IF empty THEN user_history
                ELSE _remember(h[p].uid, "foto", Slice(extracted, SnippetChars))
           /\ tmp_files' = Finally(h[p].created)
           /\ h' = [h EXCEPT ![p].pc = "done", ![p].oks = @ + 1,
                             ![p].ret = "path", ![p].tmp_path = h[p].created,
                             ![p].started = 0, ![p].due = 0, ![p].hit = hit,
                             ![p].reply = IF empty THEN "no_text"
                                          ELSE "analysis"]
    /\ UNCHANGED <<handler_frame, rate_limit, accepted, wa_ret>>

\* download_to_drive succeeds in handle_document: the file is read as text,
\* analysed and remembered.  telegram_bot.py:635-636 and 1020-1044
document_downloaded(p) ==
    /\ h[p].pc = "download"
    /\ h[p].kind = "document"
    /\ LET content == _sanitize_text(PayloadText(h[p].payload))
           empty == TextLen(Strip(content)) = 0
       IN  /\ user_history' =
                IF empty THEN user_history
                ELSE _remember(h[p].uid, "documento",
                               Slice(content, SnippetChars))
           /\ tmp_files' = Finally(h[p].created)
           /\ h' = [h EXCEPT ![p].pc = "done", ![p].oks = @ + 1,
                             ![p].ret = "path", ![p].tmp_path = h[p].created,
                             ![p].started = 0, ![p].due = 0,
                             ![p].reply = IF empty THEN "empty_file"
                                          ELSE "analysis"]
    /\ UNCHANGED <<handler_frame, rate_limit, accepted, ocr_cache, ocr_calls, wa_ret>>

----------------------------------------------------------------------------
(* WhatsApp webhook: whatsapp_webhook, whatsapp_bot.py:12-32, with         *)
(* ocr_image_url and ocr_image_path, common.py:66-83.  The webhook makes   *)
(* no call of a rate limiter: `admitted` of its result is FALSE.           *)

\* A media message: the media is fetched (fetched = FALSE: requests.get
\* raises), written to a temporary file that is never removed, and read by
\* OCR (ocr_ok = FALSE: the OCR run raises); either failure yields "".
whatsapp_media(b, fetched, ocr_ok) ==
    /\ fetched \/ ocr_ok
    /\ fetched => Cardinality(tmp_files) < MaxTmpFiles
    /\ tmp_files' = IF fetched THEN tmp_files \cup {FreshPath} ELSE tmp_files
    /\ ocr_calls' = IF fetched THEN [ocr_calls EXCEPT ![b] = @ + 1]
                    ELSE ocr_calls
    /\ LET extracted == IF fetched /\ ocr_ok THEN PayloadText(b)
                        ELSE EmptyText
       IN  wa_ret' = [payload |-> b, text |-> extracted,
                      reply |-> IF TextLen(Strip(extracted)) = 0
                                THEN "no_text" ELSE "analysis",
                      admitted |-> FALSE]
    /\ UNCHANGED <<handler_frame, rate_limit, accepted, user_history, ocr_cache, h>>

\* A message without media: the body is stripped and analysed, or the
\* prompt is sent when it is empty.
whatsapp_text(txt) ==
    /\ wa_ret' = [payload |-> 0, text |-> Strip(txt),
                  reply |-> IF TextLen(Strip(txt)) = 0 THEN "prompt"
                            ELSE "analysis",
                  admitted |-> FALSE]
    /\ UNCHANGED <<handler_frame, rate_limit, accepted, user_history, ocr_cache, h,
                   tmp_files, ocr_calls>>

----------------------------------------------------------------------------
(* CurriculumCatalog: TUTOR_CONTENT, telegram_bot.py:102-554.  Four of its *)
(* entries are modelled, with the module and quiz counts and the correct   *)
(* answers of the source: python 0 (4 modules, 3 questions), python 4      *)
(* (2 modules, 1 question), java 0 and the placeholder java 4 (1 module,   *)
(* no quiz).  A module is named by its language, level and list index.     *)

None == <<>>

SUPPORTED_LANGS == {"python", "java"}

\* TUTOR_CONTENT[lang][level]["modules"]
CatalogModules(lang, level) ==
    LET n == CASE lang = "python" /\ level = 0 -> 4
               [] lang = "python" /\ level = 4 -> 2
               [] OTHER -> 1
    IN  [i \in 1..n |-> <<lang, level, i - 1>>]

\* TUTOR_CONTENT[lang][level]["quiz"]: the questions, each with its zero-based
\* correct answer and its number of options.
CatalogQuiz(lang, level) ==
    CASE lang = "python" /\ level = 0 ->
           <<[answer |-> 1, options |-> 3], [answer |-> 1, options |-> 3],
             [answer |-> 0, options |-> 3]>>
      [] lang = "python" /\ level = 4 -> <<[answer |-> 1, options |-> 3]>>
      [] OTHER -> <<>>

TUTOR_CONTENT ==
    [lang \in SUPPORTED_LANGS |->
        [level \in {0, 4} |->
            [modules |-> CatalogModules(lang, level),
             quiz |-> CatalogQuiz(lang, level)]]]

\* args[0].lower(), telegram_bot.py:803
Lower(s) ==
    CASE s = "Python" -> "python"
      [] s = "JAVA" -> "java"
      [] OTHER -> s

----------------------------------------------------------------------------
(* PersistenceLayer: save_state, telegram_bot.py:92-96.  The file holds    *)
(* the JSON text of {"tutor_state": tutor_state}; json.dumps turns the     *)
(* integer user ids into string keys.                                      *)

\* The JSON object key of an integer dictionary key.
JsonKey(u) == <<"str", u>>

\* json.dumps({"tutor_state": ts}): the object under "tutor_state".
json_dumps(ts) ==
    [k \in {JsonKey(u) : u \in DOMAIN ts} |-> ts[k[2]]]

\* int(k) for a JSON object key k.
IntKey(k) == k[2]

\* Mutant of LoadedSessions: a loaded session is one module further.
LoadedSessionsShifted(data) ==
    [u \in {IntKey(k) : k \in DOMAIN data} |->
        [data[CHOOSE k \in DOMAIN data : IntKey(k) = u]
            EXCEPT !.module_idx = @ + 1]]

\* {int(k): v for k, v in data.get("tutor_state", {}).items()} for the
\* parsed text of the file.
LoadedSessions(data) ==
    [u \in {IntKey(k) : k \in DOMAIN data} |->
        data[CHOOSE k \in DOMAIN data : IntKey(k) = u]]

\* Mutant of load_state: the file is not read.
LoadStateSkipping(ts, file) == ts

\* tutor_state after load_state() into the map ts: the sessions of an
\* existing, parsable file are put over ts; an absent file is skipped and
\* the exception json.loads raises on any other text is logged and
\* swallowed.
load_state(ts, file) ==
    IF file.kind = "json" THEN LoadedSessions(file.data) @@ ts ELSE ts

\* Mutant of save_state: the file is never written.
SaveStateSkipping(ts, outcome) == state_file

\* Mutant of save_state: a truncated file cannot be written again.
SaveStateSticky(ts, outcome) ==
    CASE outcome = "ok" /\ state_file.kind # "truncated"
           -> [kind |-> "json", data |-> json_dumps(ts)]
      [] outcome = "write_failed" -> [kind |-> "truncated", data |-> <<>>]
      [] OTHER -> state_file

\* STATE_FILE after save_state() on the session map ts.  write_text either
\* writes the whole text ("ok"), fails to open the file and leaves it as it
\* was ("open_failed"), or fails after the file was truncated
\* ("write_failed"); the exception is logged and swallowed.
save_state(ts, outcome) ==
    CASE outcome = "ok" -> [kind |-> "json", data |-> json_dumps(ts)]
      [] outcome = "open_failed" -> state_file
      [] outcome = "write_failed" -> [kind |-> "truncated", data |-> <<>>]

SaveOutcomes == {"ok", "open_failed", "write_failed"}

----------------------------------------------------------------------------
(* TutorStateMachine: the tutor commands, telegram_bot.py:649-679 and      *)
(* 796-916.  A command handler changes the session map and the file before *)
(* its only await (the reply), so each command is one step.                *)

\* tutor_state.get(uid) is a session (`if not st` is false).
HasSession(u) == u \in DOMAIN tutor_state

\* Mutant of NewSession: the quiz of a new session counts as finished.
NewSessionQuizDone(lang, level) ==
    [lang |-> lang, level |-> level, module_idx |-> 0,
     quiz_idx |-> Len(CatalogQuiz(lang, level)), score |-> 0]

\* The session tutor_set stores, telegram_bot.py:650-656.
NewSession(lang, level) ==
    [lang |-> lang, level |-> level, module_idx |-> 0, quiz_idx |-> 0,
     score |-> 0]

\* Mutant of tutor_set: an existing session keeps its cursors and score.
TutorSetKeeping(u, lang, level) ==
    IF HasSession(u)
    THEN [tutor_state EXCEPT ![u].lang = lang, ![u].level = level]
    ELSE (u :> NewSession(lang, level)) @@ tutor_state

\* tutor_state after `tutor_state[user_id] = {...}` in tutor_set.
tutor_set(u, lang, level) == (u :> NewSession(lang, level)) @@ tutor_state

\* Mutant of Pop: the sessions of all users are removed.
PopAll(u) == <<>>

\* Mutant of Pop: the session stays.
PopKeeping(u) == tutor_state

\* tutor_state after tutor_state.pop(uid, None), telegram_bot.py:914
Pop(u) == [v \in DOMAIN tutor_state \ {u} |-> tutor_state[v]]

\* Mutant of tutor_current_module: the last module of the level is returned
\* while modules remain.
TutorCurrentModuleLast(u) ==
    IF ~HasSession(u) THEN [st |-> FALSE, mod |-> None, mods |-> <<>>]
    ELSE LET st == tutor_state[u]
             modules == TUTOR_CONTENT[st.lang][st.level].modules
         IN  IF st.module_idx >= Len(modules)
             THEN [st |-> TRUE, mod |-> None, mods |-> modules]
             ELSE [st |-> TRUE, mod |-> modules[Len(modules)],
                   mods |-> modules]

\* tutor_current_module, telegram_bot.py:660-668: whether there is a
\* session, the module at the cursor (None past the end) and the modules.
tutor_current_module(u) ==
    IF ~HasSession(u) THEN [st |-> FALSE, mod |-> None, mods |-> <<>>]
    ELSE LET st == tutor_state[u]
             modules == TUTOR_CONTENT[st.lang][st.level].modules
         IN  IF st.module_idx >= Len(modules)
             THEN [st |-> TRUE, mod |-> None, mods |-> modules]
             ELSE [st |-> TRUE, mod |-> modules[st.module_idx + 1],
                   mods |-> modules]

\* tutor_quiz_question, telegram_bot.py:671-679, on the session st: the
\* question at the cursor (None past the end) and the quiz.
tutor_quiz_question(st) ==
    LET quiz == TUTOR_CONTENT[st.lang][st.level].quiz IN
    IF st.quiz_idx >= Len(quiz) THEN [q |-> None, quiz |-> quiz]
    ELSE [q |-> quiz[st.quiz_idx + 1], quiz |-> quiz]

\* Mutant of QuizReset: the module cursor is reset too.
QuizResetAll(st) == [st EXCEPT !.quiz_idx = 0, !.score = 0, !.module_idx = 0]

\* Mutant of QuizReset: the score is kept.
QuizResetCursorOnly(st) == [st EXCEPT !.quiz_idx = 0]

\* st["quiz_idx"] = 0; st["score"] = 0, telegram_bot.py:850-851
QuizReset(st) == [st EXCEPT !.quiz_idx = 0, !.score = 0]

\* Mutant of ParseAnswer: the choice is taken as zero-based.
ParseAnswerRaw(choice) == choice

\* ans = int(context.args[0]) - 1, telegram_bot.py:870
ParseAnswer(choice) == choice - 1

\* Mutant of AnswerStep: the score is cleared when no question is left.
AnswerStepClearing(st, q, ans) ==
    IF q = None THEN [st EXCEPT !.score = 0]
    ELSE [st EXCEPT !.score = IF ans = q.answer THEN @ + 1 ELSE @,
                    !.quiz_idx = @ + 1]

\* Mutant of AnswerStep: an answer without a question sets the score.
AnswerStepMarking(st, q, ans) ==
    IF q = None THEN [st EXCEPT !.score = 1]
    ELSE [st EXCEPT !.score = IF ans = q.answer THEN @ + 1 ELSE @,
                    !.quiz_idx = @ + 1]

\* Mutant of AnswerStep: a wrong answer starts the quiz over.
AnswerStepRestart(st, q, ans) ==
    IF q = None THEN st
    ELSE IF ans = q.answer
    THEN [st EXCEPT !.score = @ + 1, !.quiz_idx = @ + 1]
    ELSE [st EXCEPT !.quiz_idx = 0, !.score = 0]

\* The session after answer_cmd compared ans with the question q,
\* telegram_bot.py:875-885; without a question the handler has returned.
AnswerStep(st, q, ans) ==
    IF q = None THEN st
    ELSE [st EXCEPT !.score = IF ans = q.answer THEN @ + 1 ELSE @,
                    !.quiz_idx = @ + 1]

\* Mutant of ReportedScore: the summary shows the cursor.
ReportedCursor(st) == st.quiz_idx

\* The score in "Fin del quiz. Puntuación: {st['score']}/{len(quiz)}."
ReportedScore(st) == st.score

\* Mutant of NextModuleIdx: the cursor stays.
NextModuleIdxSame(st) == st.module_idx

\* Mutant of NextModuleIdx: the cursor skips a module.
NextModuleIdxSkipping(st) == st.module_idx + 2

\* st["module_idx"] += 1, telegram_bot.py:829
NextModuleIdx(st) == st.module_idx + 1

\* The numbers a user sends with /answer: the three options, zero, a
\* negative number and a number past the options.
Choices == {-1, 0, 1, 2, 3, 4}

\* The result of the last tutor command: its outcome kind, what its reply
\* shows, and the session the command found (None without one).
NoRet ==
    [op |-> "", uid |-> 0, kind |-> "", before |-> None, lang |-> "",
     level |-> -1,
     module |-> None, shown |-> 0, total |-> 0, question |-> -1,
     quiz_total |-> -1, choice |-> 0, correct |-> FALSE, final |-> FALSE,
     score |-> -1, save |-> "none"]

Ret(op, u, kind) ==
    [NoRet EXCEPT !.op = op, !.uid = u, !.kind = kind,
                  !.before = IF HasSession(u) THEN tutor_state[u] ELSE None]

\* What the replies have shown a user: the modules delivered since the
\* session was begun, the answers given, and those whose number less one
\* was the question's correct index, since the quiz was last started or the
\* session begun, and the session the last /reset removed, if no /learn
\* followed it.
NoLog ==
    [delivered |-> <<>>, answered |-> 0, matched |-> 0, reset_from |-> None]

\* What no tutor command touches; and the same with the handler slots, for
\* a command whose invocation is not followed to its reply.
command_frame == <<now, config, boot_vars, rate_vars, user_history,
                   history_vars, ocr_cache, tmp_files, ocr_calls, wa_ret>>
tutor_frame == <<command_frame, h>>

\* learn_cmd, telegram_bot.py:796-816.  nargs = len(context.args),
\* lang_arg = args[0], numeric = int(args[1]) does not raise, level = its
\* value.
learn_cmd(u, nargs, lang_arg, numeric, level, save) ==
    LET lang == Lower(lang_arg)
        kind == IF nargs < 2 THEN "usage"
                ELSE IF ~numeric THEN "level_not_number"
                ELSE IF lang \notin SUPPORTED_LANGS THEN "InvalidSelection"
                ELSE IF level \notin DOMAIN TUTOR_CONTENT[lang]
                THEN "InvalidSelection"
                ELSE "ok"
    IN  /\ nargs < 2 => (lang_arg = "" /\ ~numeric /\ level = 0
                           /\ save = "ok")
        /\ (nargs >= 2 /\ ~numeric) => (level = 0 /\ save = "ok")
        /\ kind = "InvalidSelection" => save = "ok"
        /\ IF kind = "ok"
           THEN /\ tutor_state' = tutor_set(u, lang, level)
                /\ state_file' = save_state(tutor_state', save)
                /\ tutor_log' = [tutor_log EXCEPT ![u] = NoLog]
                /\ tutor_ret' = [Ret("learn", u, "ok") EXCEPT
                                   !.lang = lang, !.level = level,
                                   !.save = save]
           ELSE /\ UNCHANGED <<tutor_state, state_file, tutor_log>>
                /\ tutor_ret' = [Ret("learn", u, kind) EXCEPT
                                   !.lang = IF nargs < 2 THEN "" ELSE lang,
                                   !.level = IF nargs >= 2 /\ numeric
                                             THEN level ELSE -1]
        /\ UNCHANGED tutor_frame

\* next_cmd up to `await update.message.reply_text`, telegram_bot.py:819-831
next_step(u, save) ==
    LET r == tutor_current_module(u) IN
    /\ IF ~r.st
       THEN /\ save = "ok"
            /\ tutor_ret' = Ret("next", u, "NoActiveSession")
            /\ UNCHANGED <<tutor_state, state_file, tutor_log>>
       ELSE IF r.mod = None
       THEN /\ save = "ok"
            /\ tutor_ret' = Ret("next", u, "exhausted")
            /\ UNCHANGED <<tutor_state, state_file, tutor_log>>
       ELSE /\ tutor_state' = [tutor_state EXCEPT
                                 ![u].module_idx =
                                    NextModuleIdx(tutor_state[u])]
            /\ state_file' = save_state(tutor_state', save)
            /\ tutor_log' = [tutor_log EXCEPT
                               ![u].delivered = Append(@, r.mod)]
            /\ tutor_ret' = [Ret("next", u, "ok") EXCEPT
                               !.module = r.mod,
                               !.shown = tutor_state[u].module_idx + 1,
                               !.total = Len(r.mods), !.save = save]
    /\ UNCHANGED command_frame

\* next_cmd, telegram_bot.py:819-831
next_cmd(u, save) == next_step(u, save) /\ UNCHANGED h

\* quiz_cmd, telegram_bot.py:844-857: the cursor and the score are reset
\* before the quiz is looked up; the file is written only with a question.
quiz_cmd(u, save) ==
    /\ IF ~HasSession(u)
       THEN /\ save = "ok"
            /\ tutor_ret' = Ret("quiz", u, "NoActiveSession")
            /\ UNCHANGED <<tutor_state, state_file, tutor_log>>
       ELSE LET st == QuizReset(tutor_state[u])
                r == tutor_quiz_question(st)
            IN  /\ tutor_state' = [tutor_state EXCEPT ![u] = st]
                /\ tutor_log' = [tutor_log EXCEPT ![u].answered = 0,
                                                  ![u].matched = 0]
                /\ IF r.q = None
                   THEN /\ save = "ok"
                        /\ tutor_ret' = Ret("quiz", u, "NoQuizAvailable")
                        /\ UNCHANGED state_file
                   ELSE /\ state_file' = save_state(tutor_state', save)
                        /\ tutor_ret' = [Ret("quiz", u, "ok") EXCEPT
                                           !.question = st.quiz_idx,
                                           !.shown = st.quiz_idx + 1,
                                           !.total = Len(r.quiz),
                                           !.save = save]
    /\ UNCHANGED tutor_frame

\* answer_cmd up to its reply, telegram_bot.py:860-891.  has_arg =
\* context.args is not empty, numeric = int(args[0]) does not raise,
\* choice = its value.
answer_step(u, has_arg, numeric, choice, save) ==
    /\ ~(has_arg /\ numeric) => (choice = 0 /\ save = "ok")
    /\ ~has_arg => ~numeric
    /\ IF ~HasSession(u)
       THEN /\ save = "ok"
            /\ tutor_ret' = Ret("answer", u, "NoActiveSession")
            /\ UNCHANGED <<tutor_state, state_file, tutor_log>>
       ELSE IF ~has_arg
       THEN /\ tutor_ret' = Ret("answer", u, "usage")
            /\ UNCHANGED <<tutor_state, state_file, tutor_log>>
       ELSE IF ~numeric
       THEN /\ tutor_ret' = Ret("answer", u, "not_number")
            /\ UNCHANGED <<tutor_state, state_file, tutor_log>>
       ELSE LET ans == ParseAnswer(choice)
                r == tutor_quiz_question(tutor_state[u])
                st == AnswerStep(tutor_state[u], r.q, ans)
                final == st.quiz_idx >= Len(r.quiz)
            IN  /\ tutor_state' = [tutor_state EXCEPT ![u] = st]
                /\ IF r.q = None
                   THEN /\ save = "ok"
                        /\ tutor_ret' = [Ret("answer", u, "NoActiveQuiz")
                                           EXCEPT !.choice = choice]
                        /\ UNCHANGED <<state_file, tutor_log>>
                   ELSE /\ state_file' = save_state(tutor_state', save)
                        /\ tutor_log' =
                             [tutor_log EXCEPT
                                ![u].answered = @ + 1,
                                ![u].matched =
                                   IF choice - 1 = r.q.answer THEN @ + 1
                                   ELSE @]
                        /\ tutor_ret' =
                             [Ret("answer", u, "ok") EXCEPT
                                !.choice = choice,
                                !.correct = (ans = r.q.answer),
                                !.final = final,
                                !.score = IF final THEN ReportedScore(st)
                                          ELSE -1,
                                !.question = IF final THEN -1
                                             ELSE st.quiz_idx,
                                !.shown = IF final THEN 0
                                          ELSE st.quiz_idx + 1,
                                !.total = Len(r.quiz), !.save = save]
    /\ UNCHANGED command_frame

\* answer_cmd, telegram_bot.py:860-891
answer_cmd(u, has_arg, numeric, choice, save) ==
    answer_step(u, has_arg, numeric, choice, save) /\ UNCHANGED h

\* progress_cmd, telegram_bot.py:894-909
progress_cmd(u) ==
    /\ IF ~HasSession(u)
       THEN tutor_ret' = Ret("progress", u, "NoActiveSession")
       ELSE LET st == tutor_state[u]
                modules_total == Len(TUTOR_CONTENT[st.lang][st.level].modules)
            IN  tutor_ret' = [Ret("progress", u, "ok") EXCEPT
                                !.lang = st.lang, !.level = st.level,
                                !.shown = Min(st.module_idx, modules_total),
                                !.total = modules_total,
                                !.score = st.score]
    /\ UNCHANGED <<tutor_state, state_file, tutor_log>>
    /\ UNCHANGED tutor_frame

\* reset_cmd, telegram_bot.py:912-916
\* Mutant of modules_cmd: the command saves the session map.
ModulesCmdSaving(u) ==
    /\ tutor_ret' = Ret("modules", u,
                        IF HasSession(u) THEN "ok" ELSE "NoActiveSession")
    /\ state_file' = save_state(tutor_state, "ok")
    /\ UNCHANGED <<tutor_state, tutor_log>>
    /\ UNCHANGED tutor_frame

\* modules_cmd, telegram_bot.py:834-841: without a session the reply asks
\* for /learn; otherwise it lists the titles of all modules of the
\* session's catalog entry (tutor_list_modules, 699-702).
modules_cmd(u) ==
    /\ IF ~HasSession(u)
       THEN tutor_ret' = Ret("modules", u, "NoActiveSession")
       ELSE LET st == tutor_state[u] IN
            tutor_ret' = [Ret("modules", u, "ok") EXCEPT
                            !.lang = st.lang, !.level = st.level,
                            !.total =
                              Len(TUTOR_CONTENT[st.lang][st.level].modules)]
    /\ UNCHANGED <<tutor_state, state_file, tutor_log>>
    /\ UNCHANGED tutor_frame

\* errors_cmd, telegram_bot.py:919-926: without a session the reply asks
\* for /learn; otherwise it renders the error list of the session's
\* catalog entry (tutor_errors, 705-712), whose texts are not modelled.
errors_cmd(u) ==
    /\ IF ~HasSession(u)
       THEN tutor_ret' = Ret("errors", u, "NoActiveSession")
       ELSE LET st == tutor_state[u] IN
            tutor_ret' = [Ret("errors", u, "ok") EXCEPT
                            !.lang = st.lang, !.level = st.level]
    /\ UNCHANGED <<tutor_state, state_file, tutor_log>>
    /\ UNCHANGED tutor_frame

reset_cmd(u, save) ==
    /\ tutor_state' = Pop(u)
    /\ state_file' = save_state(tutor_state', save)
    /\ tutor_log' = [tutor_log EXCEPT
                       ![u] = [NoLog EXCEPT !.reset_from =
                                 IF HasSession(u) THEN tutor_state[u]
                                 ELSE None]]
    /\ tutor_ret' = [Ret("reset", u, "ok") EXCEPT !.save = save]
    /\ UNCHANGED tutor_frame

\* The invocation of a tutor command that awaits the delivery of its reply.
Replying(kind, u) == [Idle EXCEPT !.pc = "reply", !.kind = kind, !.uid = u]

\* next_cmd in a slot of its own: the command runs to its reply while
\* other invocations are suspended.
next_cmd_await(p, u, save) ==
    /\ Free(p)
    /\ next_step(u, save)
    /\ h' = [h EXCEPT ![p] = Replying("next", u)]

\* answer_cmd in a slot of its own.
answer_cmd_await(p, u, has_arg, numeric, choice, save) ==
    /\ Free(p)
    /\ answer_step(u, has_arg, numeric, choice, save)
    /\ h' = [h EXCEPT ![p] = Replying("answer", u)]

\* `await update.message.reply_text(...)` of a tutor command returns and
\* the handler ends.
reply_sent(p) ==
    /\ h[p].pc = "reply"
    /\ h' = [h EXCEPT ![p].pc = "done"]
    /\ UNCHANGED <<command_frame, tutor_vars>>

\* The user id of the bot's own account.
BotId == 3

\* menu_callback, telegram_bot.py:734-754, for the button `data` pressed by
\* user u.  The command runs on Update(update_id, message=query.message),
\* whose effective_user is the sender of the message that carries the
\* keyboard: the bot.
menu_callback(u, data, save) ==
    CASE data = "menu_next" -> next_cmd(BotId, save)
      [] data = "menu_quiz" -> quiz_cmd(BotId, save)
      [] data = "menu_progress" -> save = "ok" /\ progress_cmd(BotId)
      [] data = "menu_reset" -> reset_cmd(BotId, save)

\* Mutant of TokenMissing: the token is not checked.
TokenMissingNever == FALSE

\* `if not BOT_TOKEN`, telegram_bot.py:1066
TokenMissing == BOT_TOKEN = ""

\* main(): the process starts (again).  The module-level state is the
\* freshly initialised one; without a token SystemExit is raised, otherwise
\* load_state() fills the session map from the file and polling begins.
\* The files on disk are those the last run left.
main ==
    /\ rate_limit' = [u \in Users |-> <<>>]
    /\ rl_ret' = <<0, FALSE>>
    /\ accepted' = [u \in Users |-> [t \in 0..MaxTime |-> 0]]
    /\ user_history' = <<>>
    /\ ocr_cache' = <<>>
    /\ IF TokenMissing
       THEN /\ tutor_state' = <<>>
            /\ proc' = "exited"
            /\ loads' = 0
       ELSE /\ tutor_state' = load_state(<<>>, state_file)
            /\ proc' = "polling"
            /\ loads' = 1
    /\ tutor_ret' = [NoRet EXCEPT !.op = "main"]
    /\ tutor_log' = [u \in Users \cup {BotId} |-> NoLog]
    /\ h' = [p \in DOMAIN h |-> Idle]
    /\ ocr_calls' = [b \in Payloads |-> 0]
    /\ UNCHANGED <<now, config, BOT_TOKEN, history_vars, state_file,
                   tmp_files, wa_ret>>

----------------------------------------------------------------------------
(* Initial state: module import, telegram_bot.py:39-47 and 77-80. *)

InitModule ==
    /\ now = 0
    /\ rate_limit = [u \in Users |-> <<>>]
    /\ rl_ret = <<0, FALSE>>
    /\ accepted = [u \in Users |-> [t \in 0..MaxTime |-> 0]]
    /\ user_history = <<>>
    /\ hist_log = [u \in Users |-> <<>>]
    /\ ctx_ret = NoContext
    /\ ocr_cache = <<>>
    /\ tutor_state = <<>>
    /\ state_file = [kind |-> "absent", data |-> <<>>]
    /\ tutor_ret = NoRet
    /\ tutor_log = [u \in Users \cup {BotId} |-> NoLog]
    /\ tmp_files = {}
    /\ ocr_calls = [b \in Payloads |-> 0]
    /\ wa_ret = [payload |-> 0, text |-> EmptyText, reply |-> "",
                 admitted |-> FALSE]

\* The process polls: main() found the token and called load_state(),
\* which found no file.
InitMemory ==
    /\ InitModule
    /\ BOT_TOKEN = "token"
    /\ proc = "polling"
    /\ loads = 1

\* One handler at a time: the Application is built without
\* concurrent_updates.
InitState ==
    /\ InitMemory
    /\ h = [p \in Slots |-> Idle]

\* The rate limiter under every configured window and maximum.
InitRate ==
    /\ InitState
    /\ RATE_LIMIT_WINDOW_S \in 0..MaxWindow
    /\ RATE_LIMIT_MAX \in 0..MaxRate
    /\ DOWNLOAD_MAX_RETRIES = 1
    /\ MAX_TEXT_CHARS = 4
    /\ HISTORY_MAX = 1
    /\ MAX_PHOTO_SIZE_MB = 1
    /\ MAX_DOC_SIZE_MB = 1

NextRate ==
    \/ Tick
    \/ \E u \in Users : RateLimitedCall(u)

SpecRate == InitRate /\ [][NextRate]_vars

\* The photo and document handlers under every retry budget and size cap.
InitFetch ==
    /\ InitState
    /\ RATE_LIMIT_WINDOW_S = 1
    /\ RATE_LIMIT_MAX = 1
    /\ DOWNLOAD_MAX_RETRIES \in 0..MaxRetries
    /\ MAX_TEXT_CHARS = 4
    /\ HISTORY_MAX = 1
    /\ MAX_PHOTO_SIZE_MB \in 1..MaxCapMB
    /\ MAX_DOC_SIZE_MB = MaxCapMB

\* One user sends photos and documents; the OCR runs do not fail.
FetchUsers == {1}

NextFetch ==
    \/ Tick
    \/ \E p \in Slots, u \in FetchUsers, b \in Payloads \cup {0},
          d \in BOOLEAN : handle_photo(p, u, b, d)
    \/ \E p \in Slots, u \in FetchUsers, b \in Payloads \cup {0},
          d \in BOOLEAN, m \in BOOLEAN : handle_document(p, u, b, d, m)
    \/ \E p \in Slots, ok \in BOOLEAN : get_file_done(p, ok)
    \/ \E p \in Slots, err \in {"RetryAfter", "NetworkError", "Forbidden"},
          secs \in 1..MaxRetryAfter : download_fails(p, err, secs)
    \/ \E p \in Slots : photo_downloaded(p, TRUE)
    \/ \E p \in Slots : document_downloaded(p)

SpecFetch == InitFetch /\ [][NextFetch]_vars

\* One small configuration for the specifications below.
InitSmall ==
    /\ InitState
    /\ RATE_LIMIT_WINDOW_S = 1
    /\ RATE_LIMIT_MAX = 1
    /\ DOWNLOAD_MAX_RETRIES = 1
    /\ MAX_TEXT_CHARS = 4
    /\ HISTORY_MAX = 1
    /\ MAX_PHOTO_SIZE_MB = MaxCapMB
    /\ MAX_DOC_SIZE_MB = MaxCapMB

\* The three analysis handlers of the Telegram bot, for every user: texts,
\* and photos and documents of the smallest payload.
Texts == {Blank(3), Code(3), Code(6)}

Init == InitSmall

Next ==
    \/ Tick
    \/ \E p \in Slots, u \in Users, txt \in Texts : handle_text(p, u, txt)
    \/ \E p \in Slots : handle_text_analyze(p)
    \/ \E p \in Slots, u \in Users, b \in {0, 1} :
         handle_photo(p, u, b, TRUE)
    \/ \E p \in Slots, u \in Users, b \in {0, 1}, m \in BOOLEAN :
         handle_document(p, u, b, TRUE, m)
    \/ \E p \in Slots, ok \in BOOLEAN : get_file_done(p, ok)
    \/ \E p \in Slots, err \in {"NetworkError", "Forbidden"} :
         download_fails(p, err, 1)
    \/ \E p \in Slots, ocr_ok \in BOOLEAN : photo_downloaded(p, ocr_ok)
    \/ \E p \in Slots : document_downloaded(p)

Spec == Init /\ [][Next]_vars

\* The two entry points that extract text from an image: the photo handler
\* of the Telegram bot and the media branch of the WhatsApp webhook.
NextCache ==
    \/ Tick
    \/ \E p \in Slots, u \in FetchUsers, b \in {1, 2} :
         handle_photo(p, u, b, TRUE)
    \/ \E p \in Slots : get_file_done(p, TRUE)
    \/ \E p \in Slots : download_fails(p, "NetworkError", 1)
    \/ \E p \in Slots, ocr_ok \in BOOLEAN : photo_downloaded(p, ocr_ok)
    \/ \E b \in {1, 2}, fetched \in BOOLEAN, ocr_ok \in BOOLEAN :
         whatsapp_media(b, fetched, ocr_ok)
    \/ \E txt \in Texts : whatsapp_text(txt)

SpecCache == InitSmall /\ [][NextCache]_vars

\* The tutor commands of one user, from an empty session map and without a
\* state file; a file write succeeds or fails after truncating the file.
TutorUsers == {1}
TutorSaves == {"ok", "write_failed"}

NextTutor ==
    \/ \E u \in TutorUsers, nargs \in {1, 2},
          lang_arg \in {"", "python", "Python", "java", "cobol"},
          numeric \in BOOLEAN, level \in {0, 4, 21}, save \in TutorSaves :
         learn_cmd(u, nargs, lang_arg, numeric, level, save)
    \/ \E u \in TutorUsers, save \in TutorSaves : next_cmd(u, save)
    \/ \E u \in TutorUsers, save \in TutorSaves : quiz_cmd(u, save)
    \/ \E u \in TutorUsers, has_arg \in BOOLEAN, numeric \in BOOLEAN,
          choice \in Choices, save \in TutorSaves :
         answer_cmd(u, has_arg, numeric, choice, save)
    \/ \E u \in TutorUsers : progress_cmd(u)
    \/ \E u \in TutorUsers, save \in TutorSaves : reset_cmd(u, save)

SpecTutor == InitSmall /\ [][NextTutor]_vars

\* The tutor commands and restarts of the process over a file system whose
\* writes always succeed.
NextPersistOk ==
    \/ \E u \in TutorUsers, nargs \in {1, 2},
          lang_arg \in {"", "python", "Python", "java", "cobol"},
          numeric \in BOOLEAN, level \in {0, 4, 21} :
         learn_cmd(u, nargs, lang_arg, numeric, level, "ok")
    \/ \E u \in TutorUsers : next_cmd(u, "ok")
    \/ \E u \in TutorUsers : quiz_cmd(u, "ok")
    \/ \E u \in TutorUsers, has_arg \in BOOLEAN, numeric \in BOOLEAN,
          choice \in Choices :
         answer_cmd(u, has_arg, numeric, choice, "ok")
    \/ \E u \in TutorUsers : progress_cmd(u)
    \/ \E u \in TutorUsers : reset_cmd(u, "ok")
    \/ main

SpecPersistOk == InitSmall /\ [][NextPersistOk]_vars

\* The tutor commands and restarts of the process under every outcome of a
\* write, on the catalog entry with two modules and one question.
NextPersist ==
    \/ \E u \in TutorUsers, lang_arg \in {"Python", "cobol"},
          save \in SaveOutcomes :
         learn_cmd(u, 2, lang_arg, TRUE, 4, save)
    \/ \E u \in TutorUsers, save \in SaveOutcomes : next_cmd(u, save)
    \/ \E u \in TutorUsers, save \in SaveOutcomes : quiz_cmd(u, save)
    \/ \E u \in TutorUsers, choice \in {1, 2}, save \in SaveOutcomes :
         answer_cmd(u, TRUE, TRUE, choice, save)
    \/ \E u \in TutorUsers : progress_cmd(u)
    \/ \E u \in TutorUsers, save \in SaveOutcomes : reset_cmd(u, save)
    \/ main

SpecPersist == InitSmall /\ [][NextPersist]_vars

\* The history under every configured length.
InitHistory ==
    /\ InitState
    /\ RATE_LIMIT_WINDOW_S = 1
    /\ RATE_LIMIT_MAX = 1
    /\ DOWNLOAD_MAX_RETRIES = 1
    /\ MAX_TEXT_CHARS = 4
    /\ HISTORY_MAX \in 0..MaxHistory
    /\ MAX_PHOTO_SIZE_MB = 1
    /\ MAX_DOC_SIZE_MB = 1

NextHistory ==
    \/ \E u \in Users, kind \in HistoryKinds, text \in HistoryTexts :
         RememberCall(u, kind, text)
    \/ \E u \in Users : context_cmd(u)

SpecHistory == InitHistory /\ [][NextHistory]_vars

\* The process from the import of the module, with and without a token:
\* main() runs, and the handlers main() registered run while the process
\* polls.  The process may be started again at any time.
InitBoot ==
    /\ InitModule
    /\ h = [p \in Slots |-> Idle]
    /\ BOT_TOKEN \in {"", "token"}
    /\ proc = "imported"
    /\ loads = 0
    /\ RATE_LIMIT_WINDOW_S = 1
    /\ RATE_LIMIT_MAX = 1
    /\ DOWNLOAD_MAX_RETRIES = 1
    /\ MAX_TEXT_CHARS = 4
    /\ HISTORY_MAX = 1
    /\ MAX_PHOTO_SIZE_MB = MaxCapMB
    /\ MAX_DOC_SIZE_MB = MaxCapMB

NextBoot ==
    \/ Tick
    \/ main
    \/ /\ proc = "polling"
       /\ \/ \E p \in Slots, u \in TutorUsers : handle_text(p, u, Code(3))
          \/ \E p \in Slots : handle_text_analyze(p)
          \/ \E u \in TutorUsers : learn_cmd(u, 2, "Python", TRUE, 4, "ok")
          \/ \E u \in TutorUsers : next_cmd(u, "ok")
          \/ \E u \in TutorUsers : progress_cmd(u)
          \/ \E u \in TutorUsers : reset_cmd(u, "ok")

SpecBoot == InitBoot /\ [][NextBoot]_vars

\* The analysis handlers and the tutor commands of one user side by side:
\* a text, a photo and a document with their fetch steps, and all tutor
\* commands on the java 0 entry (one module, no quiz).
NextFrame ==
    \/ Tick
    \/ \E p \in Slots, u \in TutorUsers : handle_text(p, u, Code(3))
    \/ \E p \in Slots : handle_text_analyze(p)
    \/ \E p \in Slots, u \in TutorUsers : handle_photo(p, u, 1, TRUE)
    \/ \E p \in Slots, u \in TutorUsers :
         handle_document(p, u, 1, TRUE, TRUE)
    \/ \E p \in Slots : get_file_done(p, TRUE)
    \/ \E p \in Slots : download_fails(p, "Forbidden", 1)
    \/ \E p \in Slots : photo_downloaded(p, TRUE)
    \/ \E p \in Slots : document_downloaded(p)
    \/ \E u \in TutorUsers : context_cmd(u)
    \/ \E u \in TutorUsers : learn_cmd(u, 2, "java", TRUE, 0, "ok")
    \/ \E u \in TutorUsers : next_cmd(u, "ok")
    \/ \E u \in TutorUsers : quiz_cmd(u, "ok")
    \/ \E u \in TutorUsers : answer_cmd(u, TRUE, TRUE, 1, "ok")
    \/ \E u \in TutorUsers : progress_cmd(u)
    \/ \E u \in TutorUsers : modules_cmd(u)
    \/ \E u \in TutorUsers : errors_cmd(u)
    \/ \E u \in TutorUsers : reset_cmd(u, "ok")

SpecFrame == InitSmall /\ [][NextFrame]_vars

\* Handlers of several updates in flight at once, as an Application with
\* concurrent_updates runs them: an invocation is suspended at its awaits
\* and any other may run in between.  One user sends texts and the
\* commands /learn, /next and /answer.
ConcSlots == {1, 2}

InitConc ==
    /\ InitMemory
    /\ h = [p \in ConcSlots |-> Idle]
    /\ RATE_LIMIT_WINDOW_S = 1
    /\ RATE_LIMIT_MAX = 1
    /\ DOWNLOAD_MAX_RETRIES = 1
    /\ MAX_TEXT_CHARS = 4
    /\ HISTORY_MAX = 1
    /\ MAX_PHOTO_SIZE_MB = MaxCapMB
    /\ MAX_DOC_SIZE_MB = MaxCapMB

NextConc ==
    \/ Tick
    \/ \E p \in ConcSlots, u \in TutorUsers : handle_text(p, u, Code(3))
    \/ \E p \in ConcSlots : handle_text_analyze(p)
    \/ \E u \in TutorUsers : learn_cmd(u, 2, "Python", TRUE, 4, "ok")
    \/ \E p \in ConcSlots, u \in TutorUsers : next_cmd_await(p, u, "ok")
    \/ \E p \in ConcSlots, u \in TutorUsers, choice \in {1, 2} :
         answer_cmd_await(p, u, TRUE, TRUE, choice, "ok")
    \/ \E p \in ConcSlots : reply_sent(p)

SpecConc == InitConc /\ [][NextConc]_vars

\* Two users, one handler at a time: texts, the tutor commands and the
\* buttons of the menu.
NextIsolation ==
    \/ \E p \in Slots, u \in Users : handle_text(p, u, Code(3))
    \/ \E p \in Slots : handle_text_analyze(p)
    \/ \E u \in Users : learn_cmd(u, 2, "java", TRUE, 0, "ok")
    \/ \E u \in Users : next_cmd(u, "ok")
    \/ \E u \in Users : reset_cmd(u, "ok")
    \/ \E u \in Users, data \in {"menu_next", "menu_quiz", "menu_progress",
                                   "menu_reset"} :
         menu_callback(u, data, "ok")

SpecIsolation == InitSmall /\ [][NextIsolation]_vars

----------------------------------------------------------------------------
(* RateLimiter claims *)

\* Number of accepted calls of u with a timestamp in lo..hi.
RECURSIVE AcceptedIn(_, _, _)
AcceptedIn(u, lo, hi) ==
    IF lo > hi THEN 0
    ELSE (IF lo >= 0 THEN accepted[u][lo] ELSE 0) + AcceptedIn(u, lo + 1, hi)

\* C1: with non-decreasing call times, at every time `now` the number of
\* accepted calls of a user with a timestamp t, now - W <= t <= now, is at
\* most RATE_LIMIT_MAX, for every window W >= 0 and maximum M >= 0.
C1_WindowBound ==
    \A u \in Users :
        AcceptedIn(u, now - RATE_LIMIT_WINDOW_S, now) <= RATE_LIMIT_MAX

\* C1 witness: a user holds RATE_LIMIT_MAX >= 1 accepted calls in the
\* trailing window and the call just made was rejected.
C1_Witness ==
    \E u \in Users :
        /\ RATE_LIMIT_MAX >= 1
        /\ AcceptedIn(u, now - RATE_LIMIT_WINDOW_S, now) = RATE_LIMIT_MAX
        /\ rl_ret = <<u, TRUE>>

\* C2: when a user's window holds RATE_LIMIT_MAX timestamps, the oldest
\* being t0, a call at time t is rejected if t - t0 <= W and accepted if
\* t - t0 > W.
C2_FullWindow ==
    [][\A u \in Users :
         (/\ RateLimitedCall(u)
          /\ RATE_LIMIT_MAX >= 1
          /\ Len(WindowOf(u)) = RATE_LIMIT_MAX)
         => /\ rl_ret' = <<u, now - Head(WindowOf(u)) <= RATE_LIMIT_WINDOW_S>>
            /\ (now - Head(WindowOf(u)) <= RATE_LIMIT_WINDOW_S
                  => rate_limit'[u] = rate_limit[u])
            /\ (now - Head(WindowOf(u)) > RATE_LIMIT_WINDOW_S
                  => accepted'[u][now] = accepted[u][now] + 1)]_vars

\* C2 witness: a full window whose oldest timestamp has expired, and the
\* call made at that time was accepted.
C2_Witness ==
    \E u \in Users :
        /\ RATE_LIMIT_MAX >= 1
        /\ Len(rate_limit[u]) = RATE_LIMIT_MAX
        /\ rate_limit[u][Len(rate_limit[u])] = now
        /\ accepted[u][0] = RATE_LIMIT_MAX
        /\ now = RATE_LIMIT_WINDOW_S + 1
        /\ rl_ret = <<u, FALSE>>

\* A text, photo or document event of user u arrives at slot p and the
\* rate limiter rejects it.
RejectedEvent(p, u) ==
    /\ Free(p)
    /\ _rate_limited(u).limited
    /\ h'[p].uid = u
    /\ \/ \E txt \in Texts : handle_text(p, u, txt)
       \/ \E b \in Payloads \cup {0}, d \in BOOLEAN : handle_photo(p, u, b, d)
       \/ \E b \in Payloads \cup {0}, d \in BOOLEAN, m \in BOOLEAN :
            handle_document(p, u, b, d, m)

\* C3: a rate-limited text, photo or document event changes no state: the
\* rate windows hold the same timestamps (nothing appended, nothing
\* evicted), and the history, the cache, the temporary files, the tutor
\* sessions and the snapshot are as before; the user gets the rate-limit
\* reply.
C3_RejectedChangesNothing ==
    [][\A p \in Slots, u \in Users :
         RejectedEvent(p, u)
         => /\ rate_limit' = rate_limit
            /\ user_history' = user_history
            /\ ocr_cache' = ocr_cache
            /\ ocr_calls' = ocr_calls
            /\ tmp_files' = tmp_files
            /\ tutor_state' = tutor_state
            /\ state_file' = state_file
            /\ h'[p] = RateLimitedReply(h'[p].kind, u)]_vars

\* C3 witness: a photo of a user was rejected while that user's window,
\* the user's history and the cache were not empty.
C3_Witness ==
    \E p \in Slots :
        /\ h[p].pc = "done"
        /\ h[p].kind = "photo"
        /\ h[p].reply = "rate_limited"
        /\ rate_limit[h[p].uid] # <<>>
        /\ HistoryOf(h[p].uid) # <<>>
        /\ DOMAIN ocr_cache # {}

----------------------------------------------------------------------------
(* ResilientFetcher claims *)

\* The size cap of a handler kind, in bytes.
CapBytes(kind) == MaxMbOf(kind) * MB

\* C4: fetch never returns a success handle for a resource whose size in
\* bytes exceeds the configured cap, whatever size the descriptor declares
\* and also when it declares none.
C4_NoOversizeSuccess ==
    \A p \in Slots :
        h[p].ret = "path" => PayloadSize(h[p].payload) <= CapBytes(h[p].kind)

\* C5: when the declared size exceeds the cap, fetch fails before any
\* transfer attempt and before any temporary file is created.
C5_OversizeNoTransfer ==
    \A p \in Slots :
        h[p].file_size > CapBytes(h[p].kind)
            => h[p].attempt = 0 /\ h[p].created = 0

\* C6: the attempt that follows a "retry after T seconds" response does not
\* start before T seconds have passed since that response.
C6_WaitsRetryAfter ==
    \A p \in Slots : h[p].pc = "download" => h[p].started >= h[p].due

\* C7: for a fetch whose size check passed and which met no non-retryable
\* failure, the number of transfer attempts never exceeds
\* DOWNLOAD_MAX_RETRIES; a fetch that returned a path made exactly one
\* successful attempt, its last, after failed ones only; a fetch that
\* returned None made DOWNLOAD_MAX_RETRIES attempts, all failed.
C7_Attempts ==
    \A p \in Slots :
        /\ h[p].attempt <= DOWNLOAD_MAX_RETRIES
        /\ (h[p].pc = "done" /\ h[p].ret = "path")
              => /\ h[p].oks = 1
                 /\ h[p].attempt = h[p].fails + 1
        /\ (h[p].pc = "done" /\ h[p].ret = "None" /\ h[p].created # 0)
              => /\ h[p].oks = 0
                 /\ h[p].attempt = h[p].fails
                 /\ h[p].attempt = DOWNLOAD_MAX_RETRIES

\* C7 witness: DOWNLOAD_MAX_RETRIES = 3, two attempts failed with caught
\* errors and the third succeeded.
C7_Witness ==
    \E p \in Slots :
        /\ DOWNLOAD_MAX_RETRIES = 3
        /\ h[p].pc = "done"
        /\ h[p].ret = "path"
        /\ h[p].fails = 2
        /\ h[p].attempt = 3

\* C8: once the handler that started a fetch has finished, the temporary
\* file created for that fetch no longer exists.
C8_TmpReleased ==
    \A p \in Slots :
        (h[p].pc = "done" /\ h[p].created # 0) => h[p].created \notin tmp_files

\* C9: a transfer attempt that fails with an authorization failure ends
\* the fetch at once, with no further attempt although retries remain, and
\* the handler reports a failure to the user.
C9_NonRetryableStops ==
    \A p \in Slots :
        h[p].last_err = "Forbidden"
            => /\ h[p].pc = "done"
               /\ h[p].ret = "raised"
               /\ h[p].reply = "error"
               /\ h[p].attempt = h[p].fails

\* C9 witness: the first of several allowed attempts failed with an
\* authorization failure and the handler has replied with the error.
C9_Witness ==
    \E p \in Slots :
        /\ h[p].last_err = "Forbidden"
        /\ h[p].attempt = 1
        /\ DOWNLOAD_MAX_RETRIES > 1
        /\ h[p].pc = "done"
        /\ h[p].reply = "error"

----------------------------------------------------------------------------
(* ResultCache claims *)

\* C10: the text extractor runs at most once per distinct payload,
\* whichever entry point submits it, and a second submission of the same
\* bytes yields the text derived by the first.
C10_ExtractOnce ==
    \A b \in Payloads :
        /\ ocr_calls[b] <= 1
        /\ (wa_ret.payload = b /\ _hash_file(b) \in DOMAIN ocr_cache)
              => wa_ret.text = ocr_cache[_hash_file(b)]

\* C11: when the OCR run fails on a cache miss of the photo handler, the
\* empty string is stored under the file hash and is the handler's result
\* (the reply is the no-text reply, not the error reply); a later lookup of
\* a hash that holds the empty string is a hit that returns the empty
\* string, runs no extraction and leaves the cache as it is.
C11_FailureCached ==
    [][\A p \in Slots :
         LET k == _hash_file(h[p].payload) IN
         /\ photo_downloaded(p, FALSE)
               => /\ k \in DOMAIN ocr_cache'
                  /\ ocr_cache'[k] = EmptyText
                  /\ h'[p].ret = "path"
                  /\ h'[p].reply = "no_text"
         /\ (/\ h[p].pc = "download"
             /\ k \in DOMAIN ocr_cache
             /\ ocr_cache[k] = EmptyText
             /\ \E ocr_ok \in BOOLEAN : photo_downloaded(p, ocr_ok))
               => /\ h'[p].hit
                  /\ h'[p].reply = "no_text"
                  /\ ocr_calls' = ocr_calls
                  /\ ocr_cache' = ocr_cache]_vars

\* C11 witness: the one OCR run of a photo failed, and a later photo with
\* the same bytes was answered from the cache with the empty string.
C11_Witness ==
    \E p \in Slots :
        /\ h[p].pc = "done"
        /\ h[p].hit
        /\ h[p].payload = 1
        /\ ocr_cache[_hash_file(1)] = EmptyText
        /\ ocr_calls[1] = 1
        /\ h[p].reply = "no_text"

----------------------------------------------------------------------------
(* TutorStateMachine claims *)

\* (lang, level) exists in the catalog.
InCatalog(lang, level) ==
    /\ lang \in DOMAIN TUTOR_CONTENT
    /\ level \in DOMAIN TUTOR_CONTENT[lang]

\* The snapshot holds exactly the session map ts.
SnapshotOf(ts) ==
    [kind |-> "json",
     data |-> [k \in {JsonKey(u) : u \in DOMAIN ts} |-> ts[k[2]]]]

\* C12: /learn with a language (lower-cased) and a numeric level succeeds
\* exactly when (lang, level) exists in the catalog; on success the user's
\* session is {lang, level, module_idx 0, quiz_idx 0, score 0}, also when a
\* session with progress existed, and the snapshot is written (it equals
\* the session map when the write succeeds); on failure the session map
\* and the snapshot are left as they were.
C12_Begin ==
    [][\A u \in TutorUsers, lang_arg \in {"python", "Python", "java", "cobol"},
          level \in {0, 4, 21}, save \in TutorSaves :
         learn_cmd(u, 2, lang_arg, TRUE, level, save)
         => IF InCatalog(Lower(lang_arg), level)
            THEN /\ tutor_ret'.kind = "ok"
                 /\ u \in DOMAIN tutor_state'
                 /\ tutor_state'[u] =
                      [lang |-> Lower(lang_arg), level |-> level,
                       module_idx |-> 0, quiz_idx |-> 0, score |-> 0]
                 /\ tutor_ret'.save = save
                 /\ save = "ok" => state_file' = SnapshotOf(tutor_state')
            ELSE /\ tutor_ret'.kind = "InvalidSelection"
                 /\ tutor_state' = tutor_state
                 /\ state_file' = state_file]_vars

\* C12 witness: /learn replaced a session that had delivered modules and
\* scored answers by a fresh session, and the snapshot holds it.
C12_Witness ==
    /\ tutor_ret.op = "learn"
    /\ tutor_ret.kind = "ok"
    /\ tutor_ret.before # None
    /\ tutor_ret.before.module_idx > 0
    /\ tutor_ret.before.score > 0
    /\ tutor_state[tutor_ret.uid] = NewSession(tutor_ret.lang, tutor_ret.level)
    /\ state_file = SnapshotOf(tutor_state)

\* C13: after /learn on an entry with moduleCount modules, the i-th /next
\* (1 <= i <= moduleCount) returns the module at catalog index i-1 and
\* leaves module_idx = i; every /next after the moduleCount-th returns
\* "exhausted" and leaves module_idx = moduleCount; the modules delivered
\* are the catalog's, each once and in catalog order.
C13_ModulesInOrder ==
    [][\A u \in TutorUsers, save \in TutorSaves :
         (next_cmd(u, save) /\ HasSession(u))
         => LET st == tutor_state[u]
                moduleCount == Len(TUTOR_CONTENT[st.lang][st.level].modules)
                i == Len(tutor_log[u].delivered) + 1
            IN  IF i <= moduleCount
                THEN /\ tutor_ret'.kind = "ok"
                     /\ tutor_ret'.module = <<st.lang, st.level, i - 1>>
                     /\ tutor_state'[u].module_idx = i
                     /\ tutor_log'[u].delivered =
                          [j \in 1..i |-> <<st.lang, st.level, j - 1>>]
                ELSE /\ tutor_ret'.kind = "exhausted"
                     /\ tutor_ret'.module = None
                     /\ tutor_state'[u].module_idx = moduleCount
                     /\ tutor_state' = tutor_state
                     /\ tutor_log' = tutor_log]_vars

\* C13 witness: after /learn python 0 the four modules were delivered in
\* catalog order and a further /next returned "exhausted".
C13_Witness ==
    \E u \in TutorUsers :
        /\ tutor_ret.op = "next"
        /\ tutor_ret.kind = "exhausted"
        /\ HasSession(u)
        /\ tutor_state[u].lang = "python"
        /\ tutor_state[u].level = 0
        /\ tutor_state[u].module_idx = 4
        /\ Len(tutor_log[u].delivered) = 4

\* The quiz of the session st.
QuizOf(st) == TUTOR_CONTENT[st.lang][st.level].quiz

\* The modules of the session st.
ModulesOf(st) == TUTOR_CONTENT[st.lang][st.level].modules

\* C14: /quiz on a session whose quiz is not empty sets quiz_idx = 0 and
\* score = 0, shows question 0 and writes the snapshot (it equals the
\* session map when the write succeeds); on a session whose quiz is empty
\* it fails with NoQuizAvailable; without a session it fails with
\* NoActiveSession.
C14_StartQuiz ==
    [][\A u \in TutorUsers, save \in TutorSaves :
         quiz_cmd(u, save)
         => IF ~HasSession(u)
            THEN /\ tutor_ret'.kind = "NoActiveSession"
                 /\ tutor_state' = tutor_state
                 /\ state_file' = state_file
            ELSE IF Len(QuizOf(tutor_state[u])) = 0
            THEN tutor_ret'.kind = "NoQuizAvailable"
            ELSE /\ tutor_ret'.kind = "ok"
                 /\ tutor_state'[u].quiz_idx = 0
                 /\ tutor_state'[u].score = 0
                 /\ tutor_ret'.question = 0
                 /\ tutor_ret'.save = save
                 /\ save = "ok" => state_file' = SnapshotOf(tutor_state')]_vars

\* C14 witness: /quiz started over a quiz that had answers scored; cursor
\* and score are 0 and question 0 is shown.
C14_Witness ==
    /\ tutor_ret.op = "quiz"
    /\ tutor_ret.kind = "ok"
    /\ tutor_ret.before # None
    /\ tutor_ret.before.quiz_idx > 0
    /\ tutor_ret.before.score > 0
    /\ tutor_ret.question = 0
    /\ tutor_state[tutor_ret.uid].quiz_idx = 0
    /\ tutor_state[tutor_ret.uid].score = 0

\* C15: /answer n made while quiz_idx < quizCount adds exactly 1 to the
\* score if n - 1 is the correct index of the question at quiz_idx and
\* leaves it otherwise, adds exactly 1 to quiz_idx for every integer n
\* (zero, negative and past the options too), and writes the snapshot.
C15_SubmitAnswer ==
    [][\A u \in TutorUsers, choice \in Choices, save \in TutorSaves :
         (/\ answer_cmd(u, TRUE, TRUE, choice, save)
          /\ HasSession(u)
          /\ tutor_state[u].quiz_idx < Len(QuizOf(tutor_state[u])))
         => LET st == tutor_state[u]
                q == QuizOf(st)[st.quiz_idx + 1]
            IN  /\ tutor_ret'.kind = "ok"
                /\ tutor_state'[u].score =
                     st.score + (IF choice - 1 = q.answer THEN 1 ELSE 0)
                /\ tutor_state'[u].quiz_idx = st.quiz_idx + 1
                /\ tutor_ret'.correct = (choice - 1 = q.answer)
                /\ tutor_ret'.save = save
                /\ save = "ok" => state_file' = SnapshotOf(tutor_state')]_vars

\* C15 witness: a negative number was submitted as an answer: the cursor
\* moved by one and the score, which was positive, stayed.
C15_Witness ==
    /\ tutor_ret.op = "answer"
    /\ tutor_ret.kind = "ok"
    /\ tutor_ret.choice < 0
    /\ ~tutor_ret.correct
    /\ tutor_ret.before.score > 0
    /\ tutor_state[tutor_ret.uid].score = tutor_ret.before.score
    /\ tutor_state[tutor_ret.uid].quiz_idx = tutor_ret.before.quiz_idx + 1

\* C16: the /answer that moves quiz_idx to quizCount replies with the final
\* summary and every earlier one with the next question; the score of the
\* summary is the number of answers, given since the quiz was started,
\* whose number less one was the correct index; so answering every question
\* with its correct index yields quizCount.
C16_FinalScore ==
    (tutor_ret.op = "answer" /\ tutor_ret.kind = "ok")
    => LET u == tutor_ret.uid
           st == tutor_state[u]
           quizCount == Len(QuizOf(st))
       IN  /\ tutor_ret.final <=> st.quiz_idx = quizCount
           /\ ~tutor_ret.final
                => /\ st.quiz_idx < quizCount
                   /\ tutor_ret.question = st.quiz_idx
                   /\ tutor_ret.score = -1
           /\ tutor_ret.final
                => /\ tutor_ret.score = tutor_log[u].matched
                   /\ tutor_ret.question = -1
                   /\ tutor_log[u].answered = quizCount
                   /\ tutor_log[u].matched = quizCount
                        => tutor_ret.score = quizCount

\* C16 witness: the three questions of python 0 were answered with their
\* correct indexes and the summary shows 3.
C16_Witness ==
    /\ tutor_ret.op = "answer"
    /\ tutor_ret.final
    /\ tutor_ret.total = 3
    /\ tutor_ret.score = 3
    /\ tutor_log[tutor_ret.uid].matched = 3

\* C17: /answer n made while quiz_idx = quizCount (quiz finished, or level
\* without quiz) fails with NoActiveQuiz and leaves quiz_idx, score,
\* module_idx and the snapshot as they were.
C17_NoActiveQuiz ==
    [][\A u \in TutorUsers, choice \in Choices, save \in TutorSaves :
         (/\ answer_cmd(u, TRUE, TRUE, choice, save)
          /\ HasSession(u)
          /\ tutor_state[u].quiz_idx = Len(QuizOf(tutor_state[u])))
         => /\ tutor_ret'.kind = "NoActiveQuiz"
            /\ tutor_state' = tutor_state
            /\ state_file' = state_file]_vars

\* C17 witness: /answer after the last question of a finished quiz was
\* refused and the session is as it was.
C17_Witness ==
    /\ tutor_ret.op = "answer"
    /\ tutor_ret.kind = "NoActiveQuiz"
    /\ tutor_ret.before.quiz_idx = 3
    /\ tutor_ret.before.score > 0
    /\ tutor_state[tutor_ret.uid] = tutor_ret.before

\* C18: in every state reached by /learn, /next, /quiz, /answer, /progress
\* and /reset from an empty session map, every session has
\* 0 <= module_idx <= moduleCount, 0 <= quiz_idx <= quizCount and
\* 0 <= score <= quiz_idx, with the counts of the session's catalog entry.
C18_SessionBounds ==
    \A u \in DOMAIN tutor_state :
        LET st == tutor_state[u] IN
        /\ InCatalog(st.lang, st.level)
        /\ 0 <= st.module_idx /\ st.module_idx <= Len(ModulesOf(st))
        /\ 0 <= st.quiz_idx /\ st.quiz_idx <= Len(QuizOf(st))
        /\ 0 <= st.score /\ st.score <= st.quiz_idx

\* C18 witness: a session at all its upper bounds: every module delivered,
\* every question answered, every answer right.
C18_Witness ==
    \E u \in DOMAIN tutor_state :
        LET st == tutor_state[u] IN
        /\ st.module_idx = Len(ModulesOf(st))
        /\ st.quiz_idx = Len(QuizOf(st))
        /\ st.score = st.quiz_idx
        /\ st.score > 1
        /\ st.module_idx > 1

\* C19 as stated: no /next, /quiz, /answer or /progress step lowers
\* module_idx or quiz_idx of a user.
C19_CursorsNeverDecrease ==
    [][\A u \in TutorUsers :
         (/\ HasSession(u)
          /\ tutor_ret'.op \in {"next", "quiz", "answer", "progress"})
         => /\ u \in DOMAIN tutor_state'
            /\ tutor_state'[u].module_idx >= tutor_state[u].module_idx
            /\ tutor_state'[u].quiz_idx >= tutor_state[u].quiz_idx]_vars

\* C19, amended: no /next, /quiz, /answer or /progress step lowers
\* module_idx, and no /next, /answer or /progress step lowers quiz_idx; a
\* /quiz step sets quiz_idx to 0.
C19_CursorsDecreaseOnlyByQuiz ==
    [][\A u \in TutorUsers :
         (/\ HasSession(u)
          /\ tutor_ret'.op \in {"next", "quiz", "answer", "progress"})
         => /\ u \in DOMAIN tutor_state'
            /\ tutor_state'[u].module_idx >= tutor_state[u].module_idx
            /\ IF tutor_ret'.op = "quiz"
               THEN tutor_state'[u].quiz_idx = 0
               ELSE tutor_state'[u].quiz_idx >= tutor_state[u].quiz_idx]_vars

\* C19 witness: /quiz on a finished quiz took quiz_idx from 3 back to 0 and
\* left module_idx, which was positive.
C19_Witness ==
    /\ tutor_ret.op = "quiz"
    /\ tutor_ret.before # None
    /\ tutor_ret.before.quiz_idx = 3
    /\ tutor_ret.before.module_idx > 0
    /\ tutor_state[tutor_ret.uid].quiz_idx = 0
    /\ tutor_state[tutor_ret.uid].module_idx = tutor_ret.before.module_idx

\* C20: /reset removes the user's session and writes the snapshot, also
\* when the user had none; while the user has no session, /progress, /next,
\* /quiz and /answer report NoActiveSession and create none; the next
\* successful /learn starts with module_idx = 0, quiz_idx = 0, score = 0
\* whatever the progress before the reset.
C20_Reset ==
    [][\A u \in TutorUsers :
         /\ \A save \in TutorSaves :
              reset_cmd(u, save)
              => /\ u \notin DOMAIN tutor_state'
                 /\ tutor_ret'.save = save
                 /\ save = "ok" => state_file' = SnapshotOf(tutor_state')
         /\ (/\ ~HasSession(u)
             /\ tutor_ret'.uid = u
             /\ tutor_ret'.op \in {"progress", "next", "quiz", "answer"})
              => /\ tutor_ret'.kind = "NoActiveSession"
                 /\ u \notin DOMAIN tutor_state'
                 /\ state_file' = state_file
         /\ (/\ ~HasSession(u)
             /\ tutor_ret'.uid = u
             /\ tutor_ret'.op = "learn"
             /\ tutor_ret'.kind = "ok")
              => /\ tutor_state'[u].module_idx = 0
                 /\ tutor_state'[u].quiz_idx = 0
                 /\ tutor_state'[u].score = 0]_vars

\* C20 witness: a session with modules delivered and answers scored was
\* reset, the snapshot holds the empty map, and /progress then reported
\* NoActiveSession.
C20_Witness ==
    \E u \in TutorUsers :
        /\ ~HasSession(u)
        /\ tutor_log[u].reset_from # None
        /\ tutor_log[u].reset_from.module_idx > 0
        /\ tutor_log[u].reset_from.score > 0
        /\ state_file = SnapshotOf(tutor_state)
        /\ tutor_ret.op = "progress"
        /\ tutor_ret.uid = u
        /\ tutor_ret.kind = "NoActiveSession"

\* C21: /progress changes no state (no session is created for a user
\* without one) and its reply shows the four values
\* min(module_idx, moduleCount), score, quiz_idx and quizCount of the
\* user's session.
C21_ProgressReport ==
    (tutor_ret.op = "progress" /\ tutor_ret.kind = "ok")
    => LET st == tutor_state[tutor_ret.uid] IN
       /\ tutor_ret.shown = Min(st.module_idx, Len(ModulesOf(st)))
       /\ tutor_ret.score = st.score
       /\ tutor_ret.question = st.quiz_idx
       /\ tutor_ret.quiz_total = Len(QuizOf(st))

\* C22: /next writes the snapshot only when module_idx changes: a /next
\* that replies "exhausted" or NoActiveSession calls save_state not at all
\* and leaves the file, and a /next that returns a module raises
\* module_idx and calls save_state once.
C22_NextWrites ==
    [][\A u \in TutorUsers, save \in TutorSaves :
         next_cmd(u, save)
         => IF HasSession(u)
               /\ tutor_state[u].module_idx < Len(ModulesOf(tutor_state[u]))
            THEN /\ tutor_ret'.kind = "ok"
                 /\ tutor_state'[u].module_idx # tutor_state[u].module_idx
                 /\ tutor_ret'.save = save
                 /\ save = "ok" => state_file' = SnapshotOf(tutor_state')
            ELSE /\ tutor_ret'.kind \in {"exhausted", "NoActiveSession"}
                 /\ tutor_ret'.save = "none"
                 /\ tutor_state' = tutor_state
                 /\ state_file' = state_file]_vars

\* C22 witness: /next replied "exhausted" after a failed write had
\* truncated the file, and the file is still truncated: nothing was
\* written.
C22_Witness ==
    /\ tutor_ret.op = "next"
    /\ tutor_ret.kind = "exhausted"
    /\ tutor_ret.save = "none"
    /\ state_file.kind = "truncated"

----------------------------------------------------------------------------
(* Persistence claims *)

\* C23: when every write succeeds, the file read back equals the session
\* map after every tutor command, whether the command succeeded or replied
\* with an error; before the first write the file is absent and the map
\* is empty.
C23_SnapshotEqualsMemory ==
    load_state(<<>>, state_file) = tutor_state

\* C23 witness: /answer was refused with NoActiveQuiz after the quiz of
\* python 4 was finished, and file and map hold the same session.
C23_Witness ==
    /\ tutor_ret.op = "answer"
    /\ tutor_ret.kind = "NoActiveQuiz"
    /\ HasSession(tutor_ret.uid)
    /\ tutor_state[tutor_ret.uid].quiz_idx = 1
    /\ tutor_state[tutor_ret.uid].module_idx = 2
    /\ state_file = SnapshotOf(tutor_state)

\* C24: a failed write neither undoes nor blocks the change of the session
\* map and is not shown to the user: the command gives its normal reply and
\* the map holds the new session or cursors; and every successful write, of
\* whatever command, leaves a file that equals the whole map.
C24_FailedWriteKeepsMemory ==
    [][\A u \in TutorUsers :
         /\ \A save \in SaveOutcomes \ {"ok"} :
              /\ learn_cmd(u, 2, "Python", TRUE, 4, save)
                 => /\ tutor_ret'.kind = "ok"
                    /\ tutor_state'[u] = NewSession("python", 4)
              /\ (/\ next_cmd(u, save)
                  /\ HasSession(u)
                  /\ tutor_state[u].module_idx
                        < Len(ModulesOf(tutor_state[u])))
                 => /\ tutor_ret'.kind = "ok"
                    /\ tutor_ret'.module
                         = ModulesOf(tutor_state[u])
                             [tutor_state[u].module_idx + 1]
                    /\ tutor_state'[u].module_idx
                         = tutor_state[u].module_idx + 1
              /\ (/\ quiz_cmd(u, save)
                  /\ HasSession(u)
                  /\ QuizOf(tutor_state[u]) # <<>>)
                 => /\ tutor_ret'.kind = "ok"
                    /\ tutor_state'[u].quiz_idx = 0
                    /\ tutor_state'[u].score = 0
              /\ \A choice \in {1, 2} :
                   (/\ answer_cmd(u, TRUE, TRUE, choice, save)
                    /\ HasSession(u)
                    /\ tutor_state[u].quiz_idx < Len(QuizOf(tutor_state[u])))
                   => /\ tutor_ret'.kind = "ok"
                      /\ tutor_state'[u].quiz_idx
                           = tutor_state[u].quiz_idx + 1
              /\ reset_cmd(u, save)
                 => /\ tutor_ret'.kind = "ok"
                    /\ ~HasSession(u)'
         /\ tutor_ret'.save \in SaveOutcomes \ {"ok"}
            => tutor_ret'.kind = "ok"
         /\ tutor_ret'.save = "ok"
            => state_file' = SnapshotOf(tutor_state')]_vars

\* C24 witness: a write of /next failed before the file was opened; the
\* reply was the module, the map holds the raised cursor and the file
\* still holds the session as it was before.
C24_Witness ==
    /\ tutor_ret.op = "next"
    /\ tutor_ret.kind = "ok"
    /\ tutor_ret.save = "open_failed"
    /\ tutor_state[tutor_ret.uid].module_idx = 1
    /\ state_file.kind = "json"
    /\ state_file # SnapshotOf(tutor_state)

\* C25: the session map saved and loaded again is the map that was saved:
\* the same integer user ids with the same five fields, whose language and
\* integer level are keys of the catalog.
C25_RoundTrip ==
    [][(main /\ state_file = save_state(tutor_state, "ok"))
       => /\ tutor_state' = tutor_state
          /\ \A u \in DOMAIN tutor_state' :
               /\ u \in TutorUsers
               /\ DOMAIN tutor_state'[u]
                    = {"lang", "level", "module_idx", "quiz_idx", "score"}
               /\ InCatalog(tutor_state'[u].lang, tutor_state'[u].level)]_vars

\* C25 witness: the process started from a file that holds a session in
\* the middle of python 4, and the map holds it again.
C25_Witness ==
    /\ tutor_ret.op = "main"
    /\ HasSession(1)
    /\ tutor_state[1].module_idx = 1
    /\ tutor_state[1].quiz_idx = 1
    /\ state_file = SnapshotOf(tutor_state)

----------------------------------------------------------------------------
(* HistoryRing claims *)

\* The entry _remember stores for the arguments a = <<kind, text>>: the
\* kind and the first 500 characters of the text.
StoredEntry(a) ==
    <<a[1], IF a[2].len > HistoryChars THEN Code(HistoryChars) ELSE a[2]>>

\* C26: the history of a user holds at most HISTORY_MAX entries and is the
\* last min(n, HISTORY_MAX) of the n entries appended for the user, in the
\* order of the appends, each text cut to its first 500 characters.
C26_LastEntries ==
    \A u \in Users :
        LET n == Len(hist_log[u])
            m == Min(n, HISTORY_MAX)
        IN  /\ Len(HistoryOf(u)) = m
            /\ \A i \in 1..m :
                 HistoryOf(u)[i] = StoredEntry(hist_log[u][n - m + i])

\* C26 witness: three entries were appended for a user with HISTORY_MAX = 2,
\* the second of them longer than 500 characters; the history holds the
\* last two, the long one cut.
C26_Witness ==
    /\ HISTORY_MAX = 2
    /\ Len(hist_log[1]) = 3
    /\ TextLen(hist_log[1][2][2]) > HistoryChars
    /\ Len(HistoryOf(1)) = 2
    /\ HistoryOf(1)[1][2] = Code(HistoryChars)

\* C27: /context lists the user's entries oldest first, replies with the
\* "no history" text exactly when the user has no entries, and changes no
\* state: a user without a deque has none afterwards.
C27_Render ==
    [][\A u \in Users :
         context_cmd(u)
         => LET n == Len(hist_log[u])
                m == Min(n, HISTORY_MAX)
            IN  /\ ctx_ret'.sentinel = (m = 0)
                /\ Len(ctx_ret'.lines) = m
                /\ \A i \in 1..m :
                     ctx_ret'.lines[i]
                       = <<i, StoredEntry(hist_log[u][n - m + i])[1],
                           StoredEntry(hist_log[u][n - m + i])[2]>>
                /\ user_history' = user_history
                /\ DOMAIN user_history' = DOMAIN user_history
                /\ UNCHANGED <<rate_limit, ocr_cache, tutor_state,
                               state_file>>]_vars

\* C27 witness: /context of a user listed two entries of different kinds,
\* the older one first, and the other user, asked before, has no deque.
C27_Witness ==
    /\ ctx_ret.uid = 1
    /\ ~ctx_ret.sentinel
    /\ Len(ctx_ret.lines) = 2
    /\ ctx_ret.lines[1][2] = "texto"
    /\ ctx_ret.lines[2][2] = "foto"
    /\ hist_log[1] = <<<<"texto", Code(3)>>, <<"foto", Code(3)>>>>
    /\ 2 \notin DOMAIN user_history

----------------------------------------------------------------------------
(* Concurrency claims *)

\* C28: with the handlers of several events in flight at once, events of
\* one user do not race: of the analysis events of one user at most
\* RATE_LIMIT_MAX are admitted in any window, and the /next and /answer
\* commands raise the cursors by exactly the number of modules returned and
\* answers accepted: the modules delivered are the first module_idx modules
\* of the entry, each once, and the answers accepted number quiz_idx.
C28_NoRace ==
    \A u \in TutorUsers :
        /\ \A t \in 0..now :
             AcceptedIn(u, t - RATE_LIMIT_WINDOW_S, t) <= RATE_LIMIT_MAX
        /\ HasSession(u)
           => /\ tutor_log[u].delivered
                   = [j \in 1..tutor_state[u].module_idx |->
                        ModulesOf(tutor_state[u])[j]]
              /\ tutor_log[u].answered = tutor_state[u].quiz_idx

\* C28 witness: two /next commands of one user await their replies at the
\* same time, both modules of the entry were delivered and the cursor is 2;
\* an earlier text of the user was admitted.
C28_Witness ==
    /\ \A p \in ConcSlots :
         h[p].pc = "reply" /\ h[p].kind = "next" /\ h[p].uid = 1
    /\ HasSession(1)
    /\ tutor_state[1].module_idx = 2
    /\ Len(tutor_log[1].delivered) = 2
    /\ rate_limit[1] # <<>>

\* The session of user v, None without one.
SessionOf(v) == IF HasSession(v) THEN tutor_state[v] ELSE None

\* A step of a handler that serves an event of user u.
StepOf(u) ==
    \/ \E p \in Slots : handle_text(p, u, Code(3))
    \/ \E p \in Slots : h[p].uid = u /\ handle_text_analyze(p)
    \/ learn_cmd(u, 2, "java", TRUE, 0, "ok")
    \/ next_cmd(u, "ok")
    \/ reset_cmd(u, "ok")
    \/ \E data \in {"menu_next", "menu_quiz", "menu_progress", "menu_reset"} :
         menu_callback(u, data, "ok")

\* C29: a step that serves an event of user u leaves the session, the rate
\* window and the history of every other user id as they were.
C29_Isolation ==
    [][\A u \in Users :
         StepOf(u)
         => \A v \in (Users \cup {BotId}) \ {u} :
              /\ SessionOf(v)' = SessionOf(v)
              /\ HistoryOf(v)' = HistoryOf(v)
              /\ v \in Users => rate_limit'[v] = rate_limit[v]]_vars

\* C29 witness: user 1 reset their session while user 2 holds a session
\* with a raised cursor, a history entry and a rate window.
C29_Witness ==
    /\ tutor_ret.op = "reset"
    /\ tutor_ret.uid = 1
    /\ tutor_ret.before # None
    /\ ~HasSession(1)
    /\ HasSession(2)
    /\ tutor_state[2].module_idx = 1
    /\ HistoryOf(2) # <<>>
    /\ rate_limit[2] # <<>>

----------------------------------------------------------------------------
(* Admission before analysis *)

\* C30: on every entry point the analysis, the fetch and the extraction
\* run only for an event the rate limiter admitted: a Telegram handler that
\* ran the analysis serves a user with an accepted call, and a WhatsApp
\* request that fetched media or ran the analysis was admitted.
C30_AnalysisAfterAdmission ==
    /\ \A p \in Slots :
         h[p].reply = "analysis"
         => \E t \in 0..now : accepted[h[p].uid][t] > 0
    /\ (wa_ret.reply = "analysis" \/ wa_ret.payload # 0) => wa_ret.admitted

----------------------------------------------------------------------------
(* Error outcomes *)

\* C31: a fetch that fails on the size cap and a fetch that fails because
\* its attempts are used up end in two outcome kinds, SizeExceeded and
\* FetchExhausted, each with a reply of its own: the reply of a handler
\* whose fetch returned no path tells which of the two it was.
C31_DistinctFailures ==
    \A p \in Slots :
        (h[p].pc = "done" /\ h[p].ret = "None")
        => h[p].reply = IF h[p].created = 0 THEN "size_exceeded"
                        ELSE "fetch_exhausted"

----------------------------------------------------------------------------
(* Startup *)

\* C32: without a token the process exits before load_state() is called
\* and before any event is handled; a step of a handler is taken only by a
\* process that found the token and called load_state() exactly once,
\* before that step.
C32_Startup ==
    [][/\ proc' = "exited" => (BOT_TOKEN = "" /\ loads' = 0)
       /\ BOT_TOKEN = ""
          => /\ tutor_state' = <<>>
             /\ tutor_ret'.op \in {"", "main"}
             /\ \A p \in Slots : h'[p] = Idle
       /\ (tutor_ret'.op # "main" /\ (h' # h \/ tutor_ret' # tutor_ret))
          => /\ BOT_TOKEN # ""
             /\ proc = "polling"
             /\ loads = 1]_vars

\* C32 witness: a process that was started again loaded the session with
\* module_idx = 1 once, and its first /next delivered the second module.
C32_Witness ==
    /\ proc = "polling"
    /\ loads = 1
    /\ tutor_ret.op = "next"
    /\ tutor_ret.kind = "ok"
    /\ HasSession(1)
    /\ tutor_state[1].module_idx = 2
    /\ Len(tutor_log[1].delivered) = 1

----------------------------------------------------------------------------
(* RateLimiter window *)

\* C33: right after every call of _rate_limited for a user at time `now`,
\* the user's window is in non-decreasing order, holds at most
\* RATE_LIMIT_MAX timestamps, and every timestamp t in it has
\* now - t <= RATE_LIMIT_WINDOW_S.
C33_WindowAfterCall ==
    [][\A u \in Users :
         RateLimitedCall(u)
         => LET dq == rate_limit'[u] IN
            /\ \A i \in 1..Len(dq), j \in 1..Len(dq) : i <= j => dq[i] <= dq[j]
            /\ Len(dq) <= RATE_LIMIT_MAX
            /\ \A i \in 1..Len(dq) : now - dq[i] <= RATE_LIMIT_WINDOW_S]_vars

\* C33 witness: a call was accepted into a full window after its oldest
\* timestamp had expired and was dropped; the window holds two timestamps.
C33_Witness ==
    \E u \in Users :
        /\ rl_ret = <<u, FALSE>>
        /\ RATE_LIMIT_MAX = 2
        /\ now = RATE_LIMIT_WINDOW_S + 1
        /\ rate_limit[u] = <<now - 1, now>>
        /\ accepted[u][0] = 1

----------------------------------------------------------------------------
(* ResultCache growth *)

\* C34: the cache only grows: a hash that is mapped to a text stays mapped
\* to that text after every later step of any handler.
C34_CacheGrows ==
    [][\A k \in DOMAIN ocr_cache :
         k \in DOMAIN ocr_cache' /\ ocr_cache'[k] = ocr_cache[k]]_vars

\* C34 witness: the cache holds the texts of two payloads, one of them the
\* empty text of a failed OCR run, and the last photo, a miss, was analysed.
C34_Witness ==
    /\ Cardinality(DOMAIN ocr_cache) = 2
    /\ \E k \in DOMAIN ocr_cache : ocr_cache[k] = EmptyText
    /\ \E p \in Slots :
         h[p].pc = "done" /\ h[p].reply = "analysis" /\ ~h[p].hit

----------------------------------------------------------------------------
(* TutorStateMachine: the two cursors *)

\* C35: the cursors are independent: /next leaves quiz_idx and score,
\* /quiz and /answer leave module_idx, and none of the three changes the
\* language or the level of the session.
C35_IndependentCursors ==
    [][\A u \in TutorUsers :
         HasSession(u)
         => /\ next_cmd(u, "ok")
               => /\ HasSession(u)'
                  /\ tutor_state'[u].quiz_idx = tutor_state[u].quiz_idx
                  /\ tutor_state'[u].score = tutor_state[u].score
                  /\ tutor_state'[u].lang = tutor_state[u].lang
                  /\ tutor_state'[u].level = tutor_state[u].level
            /\ (\/ quiz_cmd(u, "ok")
                \/ \E has_arg \in BOOLEAN, numeric \in BOOLEAN,
                      choice \in Choices :
                     answer_cmd(u, has_arg, numeric, choice, "ok"))
               => /\ HasSession(u)'
                  /\ tutor_state'[u].module_idx = tutor_state[u].module_idx
                  /\ tutor_state'[u].lang = tutor_state[u].lang
                  /\ tutor_state'[u].level = tutor_state[u].level]_vars

\* C35 witness: on python 0, /next delivered a module after two answers,
\* one of them right, and the quiz cursor and the score are as they were;
\* the quiz was started after an earlier /next.
C35_Witness ==
    /\ tutor_ret.op = "next"
    /\ tutor_ret.kind = "ok"
    /\ tutor_ret.before # None
    /\ tutor_ret.before.quiz_idx = 2
    /\ tutor_ret.before.score = 1
    /\ tutor_state[tutor_ret.uid].module_idx = 2
    /\ tutor_state[tutor_ret.uid].quiz_idx = 2
    /\ tutor_state[tutor_ret.uid].score = 1

\* C38: a /quiz that replies NoQuizAvailable leaves the session (quiz_idx,
\* score, module_idx) and the file as they were before the command.
C38_NoQuizChangesNothing ==
    [][\A u \in TutorUsers :
         (/\ quiz_cmd(u, "ok")
          /\ HasSession(u)
          /\ QuizOf(tutor_state[u]) = <<>>)
         => /\ tutor_ret'.kind = "NoQuizAvailable"
            /\ tutor_state' = tutor_state
            /\ state_file' = state_file]_vars

\* C38 witness: /quiz replied NoQuizAvailable on java 0 after the module
\* was delivered and an /answer was refused; session and file are those of
\* before.
C38_Witness ==
    /\ tutor_ret.op = "quiz"
    /\ tutor_ret.kind = "NoQuizAvailable"
    /\ tutor_ret.before = tutor_state[tutor_ret.uid]
    /\ tutor_state[tutor_ret.uid].module_idx = 1
    /\ state_file = SnapshotOf(tutor_state)

\* C39: an /answer directly after a successful /learn on an entry with a
\* quiz, without any /quiz, is accepted: it scores question 0 and moves
\* quiz_idx to 1.
C39_AnswerAfterBegin ==
    [][\A u \in TutorUsers, choice \in Choices :
         (/\ answer_cmd(u, TRUE, TRUE, choice, "ok")
          /\ tutor_ret.op = "learn"
          /\ tutor_ret.kind = "ok"
          /\ tutor_ret.uid = u
          /\ QuizOf(tutor_state[u]) # <<>>)
         => /\ tutor_ret'.kind = "ok"
            /\ tutor_state'[u].quiz_idx = 1
            /\ tutor_state'[u].score
                 = IF choice - 1 = QuizOf(tutor_state[u])[1].answer
                   THEN 1 ELSE 0]_vars

\* C39 witness: the first command after /learn python 4 was /answer 2, the
\* right answer of the only question: the quiz is finished with score 1.
C39_Witness ==
    /\ tutor_ret.op = "answer"
    /\ tutor_ret.kind = "ok"
    /\ tutor_ret.before = NewSession("python", 4)
    /\ tutor_ret.correct
    /\ tutor_ret.final
    /\ tutor_state[tutor_ret.uid].quiz_idx = 1
    /\ tutor_state[tutor_ret.uid].score = 1

----------------------------------------------------------------------------
(* CurriculumCatalog: lookups of the sessions in memory and in the file *)

\* C37: every session in memory, and every session a start would load from
\* the file the program wrote, names a (lang, level) of the catalog and has
\* its module cursor within 0..number of modules and its quiz cursor within
\* 0..number of questions, so TUTOR_CONTENT[lang][level] is defined and
\* every index the commands use below the length is an index of the list.
C37_CatalogLookups ==
    \A ts \in {tutor_state, load_state(<<>>, state_file)} :
        \A u \in DOMAIN ts :
            /\ InCatalog(ts[u].lang, ts[u].level)
            /\ ts[u].module_idx \in 0..Len(ModulesOf(ts[u]))
            /\ ts[u].quiz_idx \in 0..Len(QuizOf(ts[u]))
            /\ ts[u].module_idx < Len(ModulesOf(ts[u]))
               => ts[u].module_idx + 1 \in DOMAIN ModulesOf(ts[u])
            /\ ts[u].quiz_idx < Len(QuizOf(ts[u]))
               => ts[u].quiz_idx + 1 \in DOMAIN QuizOf(ts[u])

\* C37 witness: a start loaded a session that stands at the end of the
\* modules and of the quiz of python 4.
C37_Witness ==
    /\ tutor_ret.op = "main"
    /\ HasSession(1)
    /\ tutor_state[1].lang = "python"
    /\ tutor_state[1].module_idx = Len(ModulesOf(tutor_state[1]))
    /\ tutor_state[1].quiz_idx = Len(QuizOf(tutor_state[1]))
    /\ tutor_state[1].quiz_idx > 0
    /\ state_file = SnapshotOf(tutor_state)

----------------------------------------------------------------------------
(* Frame of the analysis handlers and of the tutor commands *)

\* C36: the session map and the file change only in a step of /learn,
\* /next, /quiz, /answer or /reset; every step of the text, photo and
\* document handlers, of /progress, /modules, /errors and /context leaves
\* both as they were; every step of a tutor command leaves the rate
\* windows, the histories and the OCR cache as they were.
C36_Frames ==
    [][/\ \/ UNCHANGED <<tutor_state, state_file>>
          \/ \E u \in TutorUsers :
               \/ \E nargs \in 0..2, lang_arg \in {"java", "Python", "cobol"},
                     numeric \in BOOLEAN, level \in {0, 4} :
                    learn_cmd(u, nargs, lang_arg, numeric, level, "ok")
               \/ next_cmd(u, "ok")
               \/ quiz_cmd(u, "ok")
               \/ \E has_arg \in BOOLEAN, numeric \in BOOLEAN,
                     choice \in Choices :
                    answer_cmd(u, has_arg, numeric, choice, "ok")
               \/ reset_cmd(u, "ok")
       /\ \/ UNCHANGED <<tutor_state, state_file>>
          \/ ~(\/ \E p \in Slots, u \in Users, txt \in Texts :
                    handle_text(p, u, txt)
               \/ \E p \in Slots : handle_text_analyze(p)
               \/ \E p \in Slots, u \in Users, b \in Payloads \cup {0},
                     d \in BOOLEAN : handle_photo(p, u, b, d)
               \/ \E p \in Slots, u \in Users, b \in Payloads \cup {0},
                     d \in BOOLEAN, m \in BOOLEAN :
                    handle_document(p, u, b, d, m)
               \/ \E p \in Slots, ok \in BOOLEAN : get_file_done(p, ok)
               \/ \E p \in Slots,
                     err \in {"RetryAfter", "NetworkError", "Forbidden"},
                     secs \in 1..MaxRetryAfter : download_fails(p, err, secs)
               \/ \E p \in Slots, ocr_ok \in BOOLEAN :
                    photo_downloaded(p, ocr_ok)
               \/ \E p \in Slots : document_downloaded(p)
               \/ \E u \in Users :
                    progress_cmd(u) \/ modules_cmd(u) \/ errors_cmd(u)
                    \/ context_cmd(u))
       /\ \/ UNCHANGED <<rate_limit, accepted, user_history, ocr_cache>>
          \/ tutor_ret' = tutor_ret]_vars

\* C36 witness: /modules listed the module of a java 0 session that /next
\* had advanced, after a photo of the same user was analysed: the window,
\* the history and the cache are filled, and the file holds the session.
C36_Witness ==
    /\ tutor_ret.op = "modules"
    /\ tutor_ret.kind = "ok"
    /\ tutor_ret.total = 1
    /\ HasSession(1)
    /\ tutor_state[1].module_idx = 1
    /\ state_file = SnapshotOf(tutor_state)
    /\ rate_limit[1] # <<>>
    /\ HistoryOf(1) # <<>>
    /\ HistoryOf(1)[1][1] = "foto"
    /\ DOMAIN ocr_cache # {}

----------------------------------------------------------------------------
(* Analysis handlers: what an event without derived text leaves behind *)

====
